---- MODULE Spec2Model ----
(***************************************************************************)
(* StorePilot: the calculation engine (src/engine/calculations.py) and the *)
(* feasibility classifier (src/engine/feasibility.py).                     *)
(*                                                                         *)
(* Python floats are modelled as exact rationals [n, d] in lowest terms    *)
(* with d > 0, so that every equality of the engine is decided by the      *)
(* arithmetic the code performs and not by rounding.  The value None is    *)
(* the record [n |-> 0, d |-> 0], which is no rational.                    *)
(***************************************************************************)
EXTENDS Integers, Sequences, FiniteSets, TLC

VARIABLES inp, results, fe, pc, session, staffing

vars == <<inp, results, fe, pc, session, staffing>>

----------------------------------------------------------------------------
(* Float arithmetic, as exact rationals *)

Abs(x) == IF x < 0 THEN -x ELSE x

RECURSIVE Gcd(_, _)
Gcd(a, b) == IF b = 0 THEN a ELSE Gcd(b, a % b)

None == [n |-> 0, d |-> 0]

IsNone(x) == x = None

Rat(n, d) ==
    LET g == Gcd(Abs(n), Abs(d))
        s == IF d < 0 THEN -1 ELSE 1
    IN  [n |-> s * (n \div g), d |-> s * (d \div g)]

FromInt(k) == [n |-> k, d |-> 1]

Zero == FromInt(0)

One == FromInt(1)

RAdd(a, b) ==
    LET g == Gcd(a.d, b.d)
    IN  Rat(a.n * (b.d \div g) + b.n * (a.d \div g), (a.d \div g) * b.d)

RNeg(a) == [n |-> -a.n, d |-> a.d]

RSub(a, b) == RAdd(a, RNeg(b))

RMul(a, b) ==
    LET g1 == Gcd(Abs(a.n), b.d)
        g2 == Gcd(Abs(b.n), a.d)
    IN  Rat((a.n \div g1) * (b.n \div g2), (a.d \div g2) * (b.d \div g1))

\* a / b; the engine guards every division, so b is never zero here
RDiv(a, b) ==
    RMul(a, IF b.n < 0 THEN [n |-> -b.d, d |-> -b.n] ELSE [n |-> b.d, d |-> b.n])

RLt(a, b) == a.n * b.d < b.n * a.d

RLe(a, b) == a.n * b.d <= b.n * a.d

RGt(a, b) == RLt(b, a)

RGe(a, b) == RLe(b, a)

RMax(a, b) == IF RLt(a, b) THEN b ELSE a

RMin(a, b) == IF RLt(b, a) THEN b ELSE a

\* Python's sum(): a left fold from 0
RECURSIVE RSum(_)
RSum(s) == IF s = <<>> THEN Zero ELSE RAdd(RSum(SubSeq(s, 1, Len(s) - 1)), s[Len(s)])

----------------------------------------------------------------------------
(* Program constants *)

MonthsPerYear == 12

PctScale == 100

----------------------------------------------------------------------------
(* _cost_amount and the mode normalisation (mode or "pct").lower() *)

Lower(s) ==
    CASE s = "PCT" -> "pct"
      [] s = "Pct" -> "pct"
      [] s = "EUR" -> "eur"
      [] s = "Eur" -> "eur"
      [] s = "FIXED" -> "fixed"
      [] s = "Percent" -> "percent"
      [] OTHER -> s

NormMode(mode) == Lower(IF mode = "" THEN "pct" ELSE mode)

\* mutant: a fixed-mode line still charges its percentage
_cost_amount_Leaky(revenue_month, mode, pct, eur_month) ==
    IF NormMode(mode) = "eur" THEN RAdd(eur_month, RMul(revenue_month, pct))
    ELSE RMul(revenue_month, pct)

\* mutant: the two modes taken for each other
_cost_amount_Swapped(revenue_month, mode, pct, eur_month) ==
    IF NormMode(mode) = "eur" THEN RMul(revenue_month, pct) ELSE eur_month

_cost_amount(revenue_month, mode, pct, eur_month) ==
    IF NormMode(mode) = "eur" THEN eur_month ELSE RMul(revenue_month, pct)

----------------------------------------------------------------------------
(* Time texts HH:MM: _parse_hhmm and _hours_between *)

MinutesPerHour == 60

MinutesPerDay == 1440

\* a time text is a sequence of characters; None and "" are both <<>>
NoTime == <<>>

RECURSIVE Strip(_)
Strip(t) ==
    IF t = <<>> THEN t
    ELSE IF Head(t) = " " THEN Strip(Tail(t))
    ELSE IF t[Len(t)] = " " THEN Strip(SubSeq(t, 1, Len(t) - 1))
    ELSE t

DigitOf(c) ==
    CASE c = "0" -> 0 [] c = "1" -> 1 [] c = "2" -> 2 [] c = "3" -> 3 [] c = "4" -> 4
      [] c = "5" -> 5 [] c = "6" -> 6 [] c = "7" -> 7 [] c = "8" -> 8 [] c = "9" -> 9
      [] OTHER -> 0 - 1

BadInt == 0 - 1000

\* int() of two characters: digits, with a sign or a blank on one side; BadInt
\* when int() raises
IntOfTwo(a, b) ==
    IF DigitOf(a) >= 0 /\ DigitOf(b) >= 0 THEN 10 * DigitOf(a) + DigitOf(b)
    ELSE IF a \in {"+", " "} /\ DigitOf(b) >= 0 THEN DigitOf(b)
    ELSE IF a = "-" /\ DigitOf(b) >= 0 THEN 0 - DigitOf(b)
    ELSE IF DigitOf(a) >= 0 /\ b = " " THEN DigitOf(a)
    ELSE BadInt

NoParse == <<>>

\* lines 24-29 on the two numbers read: (hh, mm) when both parse and are in range
ParsedFields(hh, mm) ==
    IF hh = BadInt \/ mm = BadInt THEN NoParse
    ELSE IF 0 <= hh /\ hh <= 23 /\ 0 <= mm /\ mm <= 59 THEN <<hh, mm>>
    ELSE NoParse

\* lines 21-29 on the stripped text
ParsedStripped(s) ==
    IF Len(s) # 5 THEN NoParse
    ELSE IF s[3] # ":" THEN NoParse
    ELSE ParsedFields(IntOfTwo(s[1], s[2]), IntOfTwo(s[4], s[5]))

\* (hh, mm), or NoParse where the code returns None
_parse_hhmm(text) == IF text = NoTime THEN NoParse ELSE ParsedStripped(Strip(text))

\* mutant: an end before the start is no duration
HoursApart_SameDay(smin, emin) ==
    IF emin <= smin THEN None ELSE Rat(emin - smin, MinutesPerHour)

\* lines 42-46 on the minutes of the day of start and end
HoursApart(smin, emin) ==
    IF emin = smin THEN None
    ELSE Rat((IF emin < smin THEN emin + MinutesPerDay ELSE emin) - smin, MinutesPerHour)

\* lines 36-46 on the parsed start and end
HoursOfParsed(ps, pe) ==
    IF ps = NoParse \/ pe = NoParse THEN None
    ELSE HoursApart(ps[1] * MinutesPerHour + ps[2], pe[1] * MinutesPerHour + pe[2])

_hours_between(start, end) ==
    HoursOfParsed(IF start # NoTime THEN _parse_hhmm(start) ELSE NoParse,
                  IF end # NoTime THEN _parse_hhmm(end) ELSE NoParse)

\* h of the loop for one segment: None unless both texts are there, parse and differ
DaypartHours(dp) ==
    IF dp.start_time # NoTime /\ dp.end_time # NoTime
    THEN _hours_between(dp.start_time, dp.end_time)
    ELSE None

\* if h is not None and h > 0
CountsHours(h) == ~IsNone(h) /\ RGt(h, Zero)

\* what the loop adds to total_hours for a segment of h hours
HoursAdded(h) == IF CountsHours(h) THEN h ELSE Zero

\* total_hours after the loop
TotalHours(dayparts) ==
    RSum([k \in 1..Len(dayparts) |-> HoursAdded(DaypartHours(dayparts[k]))])

\* the dict hours_by_daypart: a key keeps the hours of its last segment that counts
HoursByDaypart(dayparts) ==
    LET hours == [k \in 1..Len(dayparts) |-> DaypartHours(dayparts[k])]
        counted == {k \in 1..Len(dayparts) : CountsHours(hours[k])}
    IN  [key \in {dayparts[k].key : k \in counted} |->
            hours[CHOOSE k \in counted :
                      /\ dayparts[k].key = key
                      /\ \A j \in counted : dayparts[j].key = key => j <= k]]

HoursDayTotal(total_hours) == IF RGt(total_hours, Zero) THEN total_hours ELSE None

\* (x / hours_day_total) if hours_day_total else None
PerHour(x, hours_day_total) ==
    IF ~IsNone(hours_day_total) /\ hours_day_total # Zero
    THEN RDiv(x, hours_day_total)
    ELSE None

----------------------------------------------------------------------------
(* calculate_financials, section by section *)

Clamp0(x) == RMax(Zero, x)

\* orders_day = sum(max(0.0, orders_per_day))
OrdersDay(dayparts) ==
    RSum([k \in 1..Len(dayparts) |-> Clamp0(dayparts[k].orders_per_day)])

\* mutant: the product clamped, not its factors
DaypartRevenueDay_ProductClamp(dp) == Clamp0(RMul(dp.orders_per_day, dp.ticket_avg))

\* one term of the revenue_day sum
DaypartRevenueDay(dp) == RMul(Clamp0(dp.orders_per_day), Clamp0(dp.ticket_avg))

RevenueDay(dayparts) ==
    RSum([k \in 1..Len(dayparts) |-> DaypartRevenueDay(dayparts[k])])

\* mutant: a month of 30 days whatever the open days
RevenueMonth_ThirtyDays(revenue_day, open_days_per_month) == RMul(revenue_day, FromInt(30))

RevenueMonth(revenue_day, open_days_per_month) ==
    RMul(revenue_day, FromInt(open_days_per_month))

Annualize(x_month) == RMul(x_month, FromInt(MonthsPerYear))

OccupancyMonth(rent_fixed_month, service_charges_month) ==
    RAdd(rent_fixed_month, service_charges_month)

\* mutant: the fee line left out of the costs
EbitdaMonth_NoFee(revenue_month, cogs, labor, opex, marketing, fee, occupancy) ==
    RSub(revenue_month, RAdd(RAdd(RAdd(RAdd(cogs, labor), opex), marketing), occupancy))

EbitdaMonth(revenue_month, cogs, labor, opex, marketing, fee, occupancy) ==
    RSub(revenue_month,
         RAdd(RAdd(RAdd(RAdd(RAdd(cogs, labor), opex), marketing), fee), occupancy))

\* mutant: no ratio at all without revenue
PctOfRevenue_Undefined(x, revenue) == IF RGt(revenue, Zero) THEN RDiv(x, revenue) ELSE None

\* (x / revenue) if revenue > 0 else 0.0
PctOfRevenue(x, revenue) == IF RGt(revenue, Zero) THEN RDiv(x, revenue) ELSE Zero

CashInvested(capex, deposits, immobilizations, guarantees) ==
    RAdd(RAdd(RAdd(capex, deposits), immobilizations), guarantees)

RoiAnnual(ebitda_annual, cash_invested) ==
    IF RGt(cash_invested, Zero) THEN RDiv(ebitda_annual, cash_invested) ELSE None

\* mutant: a negative EBITDA gives a negative payback
PaybackMonths_Signed(cash_invested, ebitda_month) ==
    IF RGt(cash_invested, Zero) /\ ebitda_month # Zero
    THEN RDiv(cash_invested, ebitda_month)
    ELSE None

PaybackMonths(cash_invested, ebitda_month) ==
    IF RGt(cash_invested, Zero) /\ RGt(ebitda_month, Zero)
    THEN RDiv(cash_invested, ebitda_month)
    ELSE None

\* the list the break-even loop runs over: (mode, pct, eur) per cost line
CostLines(i) ==
    << <<i.cogs_mode, i.cogs_pct, i.cogs_eur>>,
       <<i.labor_mode, i.labor_pct, i.labor_eur>>,
       <<i.opex_mode, i.opex_pct, i.opex_eur>>,
       <<i.marketing_mode, i.marketing_pct, i.marketing_eur>>,
       <<i.fee_mode, i.fee_pct, i.fee_eur>> >>

IsVariableLine(mode) == NormMode(mode) = "pct"

\* the loop's two accumulators after the first k lines
\* mutant: every line's percentage counted, whatever its mode
RECURSIVE VariableRate_AllLines(_, _)
VariableRate_AllLines(lines, k) ==
    IF k = 0 THEN Zero ELSE RAdd(VariableRate_AllLines(lines, k - 1), lines[k][2])

RECURSIVE VariableRate(_, _)
VariableRate(lines, k) ==
    IF k = 0 THEN Zero
    ELSE IF IsVariableLine(lines[k][1])
         THEN RAdd(VariableRate(lines, k - 1), lines[k][2])
         ELSE VariableRate(lines, k - 1)

RECURSIVE FixedMonthExtra(_, _)
FixedMonthExtra(lines, k) ==
    IF k = 0 THEN Zero
    ELSE IF IsVariableLine(lines[k][1])
         THEN FixedMonthExtra(lines, k - 1)
         ELSE RAdd(FixedMonthExtra(lines, k - 1), lines[k][3])

\* mutant: occupancy left out of the fixed costs
FixedCostsMonth_NoOccupancy(occupancy_month, fixed_month_extra) == fixed_month_extra

FixedCostsMonth(occupancy_month, fixed_month_extra) ==
    RAdd(occupancy_month, fixed_month_extra)

\* mutant: the variable rate taken for the margin
ContributionMargin_Rate(variable_rate) == variable_rate

ContributionMargin(variable_rate) == RSub(One, variable_rate)

\* mutant: break-even shown with no fixed costs at all
BreakEvenShown_ZeroFixed(contribution_margin, fixed_costs_month) ==
    RGt(contribution_margin, Zero) /\ RGe(fixed_costs_month, Zero)

\* mutant: break-even shown whatever the margin
BreakEvenShown_AnyMargin(contribution_margin, fixed_costs_month) ==
    RGt(fixed_costs_month, Zero)

BreakEvenShown(contribution_margin, fixed_costs_month) ==
    RGt(contribution_margin, Zero) /\ RGt(fixed_costs_month, Zero)

\* mutant: the fixed costs multiplied by the margin
BreakEvenRevenueMonth_Times(contribution_margin, fixed_costs_month) ==
    IF BreakEvenShown(contribution_margin, fixed_costs_month)
    THEN RMul(fixed_costs_month, contribution_margin)
    ELSE None

BreakEvenRevenueMonth(contribution_margin, fixed_costs_month) ==
    IF BreakEvenShown(contribution_margin, fixed_costs_month)
    THEN RDiv(fixed_costs_month, contribution_margin)
    ELSE None

BreakEvenRevenueAnnual(break_even_revenue_month) ==
    IF IsNone(break_even_revenue_month) THEN None
    ELSE Annualize(break_even_revenue_month)

BlendedTicket(revenue_day, orders_day) ==
    IF RGt(orders_day, Zero) THEN RDiv(revenue_day, orders_day) ELSE None

\* "blended_ticket and blended_ticket > 0": None and 0.0 are both falsy
BreakEvenOrdersDay(break_even_revenue_month, blended_ticket, open_days_per_month) ==
    IF /\ ~IsNone(break_even_revenue_month)
       /\ ~IsNone(blended_ticket)
       /\ blended_ticket # Zero
       /\ RGt(blended_ticket, Zero)
       /\ open_days_per_month > 0
    THEN RDiv(break_even_revenue_month,
              RMul(blended_ticket, FromInt(open_days_per_month)))
    ELSE None

\* Break-even curve
CurveSamples == 61

CurveSteps == 60

CurveFloor == 150000

NoCurve ==
    [revenue_annual |-> <<>>, total_costs_annual |-> <<>>, ebitda_annual |-> <<>>,
     break_even_revenue_annual |-> None, fixed_costs_annual |-> None,
     variable_rate |-> None, contribution_margin |-> None]

\* mutant: the axis ignores the break-even revenue
CurveXMax_RunRateOnly(revenue_annual_runrate, break_even_revenue_annual) ==
    RMax(RMul(revenue_annual_runrate, Rat(14, 10)), FromInt(CurveFloor))

CurveXMax(revenue_annual_runrate, break_even_revenue_annual) ==
    RMax(RMax(RMul(revenue_annual_runrate, Rat(14, 10)),
              RMul(IF IsNone(break_even_revenue_annual) THEN Zero
                   ELSE break_even_revenue_annual, Rat(16, 10))),
         FromInt(CurveFloor))

CurveXs(x_max) ==
    [k \in 1..CurveSamples |-> RMul(FromInt(k - 1), RDiv(x_max, FromInt(CurveSteps)))]

CurveTotalCost(fixed_costs_annual, contribution_margin, x) ==
    RAdd(fixed_costs_annual, RMul(RSub(One, contribution_margin), x))

BreakEvenCurve(contribution_margin, fixed_costs_month, revenue_annual_runrate, break_even_revenue_annual) ==
    IF RGt(contribution_margin, Zero) /\ RGt(fixed_costs_month, Zero)
    THEN LET fixed_costs_annual == Annualize(fixed_costs_month)
             xs == CurveXs(CurveXMax(revenue_annual_runrate, break_even_revenue_annual))
             total_costs == [k \in 1..Len(xs) |->
                                CurveTotalCost(fixed_costs_annual, contribution_margin, xs[k])]
         IN  [revenue_annual |-> xs,
              total_costs_annual |-> total_costs,
              ebitda_annual |-> [k \in 1..Len(xs) |-> RSub(xs[k], total_costs[k])],
              break_even_revenue_annual |-> break_even_revenue_annual,
              fixed_costs_annual |-> fixed_costs_annual,
              variable_rate |-> RSub(One, contribution_margin),
              contribution_margin |-> contribution_margin]
    ELSE NoCurve

\* ---- Y1 view (seasonality + ramp-up)
MaxRampMonths == 12

MonthsPerQuarter == 3

Quarters == 4

IntMax(a, b) == IF a < b THEN b ELSE a

IntMin(a, b) == IF a < b THEN a ELSE b

ClampRampMonths(ramp_up_months) == IntMax(0, IntMin(MaxRampMonths, ramp_up_months))

ClampRampFloor(ramp_up_floor) == RMax(Zero, RMin(One, ramp_up_floor))

\* mutant: each month given its quarter's whole weight
MonthWeights_NoSplit(quarter_weights) ==
    IF quarter_weights # <<>> /\ Len(quarter_weights) = Quarters
                              /\ RGt(RSum(quarter_weights), Zero)
    THEN LET s  == RSum(quarter_weights)
             qw == [k \in 1..Quarters |-> RDiv(quarter_weights[k], s)]
         IN  [m \in 1..MonthsPerYear |-> qw[((m - 1) \div MonthsPerQuarter) + 1]]
    ELSE [m \in 1..MonthsPerYear |-> Rat(1, MonthsPerYear)]

\* mutant: the weights read as percents of the year, whatever their total
MonthWeights_PerHundred(quarter_weights) ==
    IF quarter_weights # <<>> /\ Len(quarter_weights) = Quarters
                              /\ RGt(RSum(quarter_weights), Zero)
    THEN [m \in 1..MonthsPerYear |->
             RDiv(quarter_weights[((m - 1) \div MonthsPerQuarter) + 1],
                  FromInt(100 * MonthsPerQuarter))]
    ELSE [m \in 1..MonthsPerYear |-> Rat(1, MonthsPerYear)]

\* quarter_weights is None (modelled <<>>) or a list of floats
MonthWeights(quarter_weights) ==
    IF quarter_weights # <<>> /\ Len(quarter_weights) = Quarters
                              /\ RGt(RSum(quarter_weights), Zero)
    THEN LET s  == RSum(quarter_weights)
             qw == [k \in 1..Quarters |-> RDiv(quarter_weights[k], s)]
         IN  [m \in 1..MonthsPerYear |->
                 RDiv(qw[((m - 1) \div MonthsPerQuarter) + 1], FromInt(MonthsPerQuarter))]
    ELSE [m \in 1..MonthsPerYear |-> Rat(1, MonthsPerYear)]

\* mutant: the interpolation runs over ramp_up_months steps, not ramp_up_months - 1
RampFactor_LateEnd(m, ramp_up_months, ramp_up_floor) ==
    IF ramp_up_months > 0 /\ m < ramp_up_months
    THEN IF ramp_up_months = 1 THEN One
         ELSE RAdd(ramp_up_floor,
                   RMul(RSub(One, ramp_up_floor), Rat(m, ramp_up_months)))
    ELSE One

\* factors[m] for the 0-based month m
RampFactor(m, ramp_up_months, ramp_up_floor) ==
    IF ramp_up_months > 0 /\ m < ramp_up_months
    THEN IF ramp_up_months = 1 THEN One
         ELSE RAdd(ramp_up_floor,
                   RMul(RSub(One, ramp_up_floor), Rat(m, ramp_up_months - 1)))
    ELSE One

Factors(ramp_up_months, ramp_up_floor) ==
    [m \in 1..MonthsPerYear |-> RampFactor(m - 1, ramp_up_months, ramp_up_floor)]

\* mutant: the effective weights scaled back to a sum of 1
MwNoRenorm_Renormalized(month_weights, factors) ==
    LET raw == [m \in 1..MonthsPerYear |-> RMul(month_weights[m], factors[m])]
        tot == RSum(raw)
    IN  [m \in 1..MonthsPerYear |-> IF RGt(tot, Zero) THEN RDiv(raw[m], tot) ELSE raw[m]]

MwNoRenorm(month_weights, factors) ==
    [m \in 1..MonthsPerYear |-> RMul(month_weights[m], factors[m])]

RevenueAnnualY1(revenue_annual_runrate, mw_no_renorm) ==
    RMul(revenue_annual_runrate, RSum(mw_no_renorm))

\* mutant: a fixed line counted for one month only
_annual_cost_y1_OneMonth(mode, pct, eur_month, y1_revenue) ==
    IF NormMode(mode) = "pct"
    THEN RMul(Clamp0(pct), Clamp0(y1_revenue))
    ELSE Clamp0(eur_month)

_annual_cost_y1(mode, pct, eur_month, y1_revenue) ==
    IF NormMode(mode) = "pct"
    THEN RMul(Clamp0(pct), Clamp0(y1_revenue))
    ELSE RMul(Clamp0(eur_month), FromInt(MonthsPerYear))

\* mutant: the investment over the EBITDA of the year, in years
PaybackMonthsY1_Years(cash_invested, ebitda_annual_y1) ==
    IF RGt(cash_invested, Zero) /\ RGt(ebitda_annual_y1, Zero)
    THEN RDiv(cash_invested, ebitda_annual_y1)
    ELSE None

PaybackMonthsY1(cash_invested, ebitda_annual_y1) ==
    IF RGt(cash_invested, Zero) /\ RGt(ebitda_annual_y1, Zero)
    THEN RDiv(cash_invested, RDiv(ebitda_annual_y1, FromInt(MonthsPerYear)))
    ELSE None

\* every key of the returned dict but the break-even curve, which is built last
Financials(i) ==
    LET open_days_per_month == i.open_days_per_month
        orders_day == OrdersDay(i.dayparts)
        revenue_day == RevenueDay(i.dayparts)
        revenue_month == RevenueMonth(revenue_day, open_days_per_month)
        revenue_annual_runrate == Annualize(revenue_month)
        hours_day_total == HoursDayTotal(TotalHours(i.dayparts))
        cogs_month == _cost_amount(revenue_month, i.cogs_mode, i.cogs_pct, i.cogs_eur)
        labor_month == _cost_amount(revenue_month, i.labor_mode, i.labor_pct, i.labor_eur)
        opex_month == _cost_amount(revenue_month, i.opex_mode, i.opex_pct, i.opex_eur)
        marketing_month ==
            _cost_amount(revenue_month, i.marketing_mode, i.marketing_pct, i.marketing_eur)
        fee_month == _cost_amount(revenue_month, i.fee_mode, i.fee_pct, i.fee_eur)
        occupancy_month == OccupancyMonth(i.rent_fixed_month, i.service_charges_month)
        ebitda_month == EbitdaMonth(revenue_month, cogs_month, labor_month, opex_month,
                                    marketing_month, fee_month, occupancy_month)
        cogs_annual == Annualize(cogs_month)
        labor_annual == Annualize(labor_month)
        opex_annual == Annualize(opex_month)
        marketing_annual == Annualize(marketing_month)
        fee_annual == Annualize(fee_month)
        occupancy_annual == Annualize(occupancy_month)
        ebitda_annual == Annualize(ebitda_month)
        cash_invested == CashInvested(i.capex, i.deposits, i.immobilizations, i.guarantees)
        lines == CostLines(i)
        variable_rate == VariableRate(lines, Len(lines))
        fixed_month_extra == FixedMonthExtra(lines, Len(lines))
        fixed_costs_month == FixedCostsMonth(occupancy_month, fixed_month_extra)
        contribution_margin == ContributionMargin(variable_rate)
        break_even_revenue_month == BreakEvenRevenueMonth(contribution_margin, fixed_costs_month)
        break_even_revenue_annual == BreakEvenRevenueAnnual(break_even_revenue_month)
        blended_ticket == BlendedTicket(revenue_day, orders_day)
        ramp_up_months == ClampRampMonths(i.ramp_up_months)
        ramp_up_floor == ClampRampFloor(i.ramp_up_floor)
        mw_no_renorm == MwNoRenorm(MonthWeights(i.quarter_weights),
                                   Factors(ramp_up_months, ramp_up_floor))
        revenue_annual_y1 == RevenueAnnualY1(revenue_annual_runrate, mw_no_renorm)
        cogs_annual_y1 == _annual_cost_y1(i.cogs_mode, i.cogs_pct, i.cogs_eur, revenue_annual_y1)
        labor_annual_y1 ==
            _annual_cost_y1(i.labor_mode, i.labor_pct, i.labor_eur, revenue_annual_y1)
        opex_annual_y1 == _annual_cost_y1(i.opex_mode, i.opex_pct, i.opex_eur, revenue_annual_y1)
        marketing_annual_y1 ==
            _annual_cost_y1(i.marketing_mode, i.marketing_pct, i.marketing_eur, revenue_annual_y1)
        fee_annual_y1 == _annual_cost_y1(i.fee_mode, i.fee_pct, i.fee_eur, revenue_annual_y1)
        occupancy_annual_y1 == RMul(occupancy_month, FromInt(MonthsPerYear))
        total_costs_annual_y1 ==
            RAdd(RAdd(RAdd(RAdd(RAdd(cogs_annual_y1, labor_annual_y1), opex_annual_y1),
                           marketing_annual_y1), fee_annual_y1), occupancy_annual_y1)
        ebitda_annual_y1 == RSub(revenue_annual_y1, total_costs_annual_y1)
    IN  [orders_day |-> orders_day,
         revenue_day |-> revenue_day,
         revenue_month |-> revenue_month,
         revenue_annual_runrate |-> revenue_annual_runrate,
         hours_by_daypart |-> HoursByDaypart(i.dayparts),
         hours_day_total |-> hours_day_total,
         orders_per_hour |-> PerHour(orders_day, hours_day_total),
         revenue_per_hour |-> PerHour(revenue_day, hours_day_total),
         cogs_month |-> cogs_month,
         labor_month |-> labor_month,
         opex_month |-> opex_month,
         marketing_month |-> marketing_month,
         fee_month |-> fee_month,
         occupancy_month |-> occupancy_month,
         cogs_annual_runrate |-> cogs_annual,
         labor_annual_runrate |-> labor_annual,
         opex_annual_runrate |-> opex_annual,
         marketing_annual_runrate |-> marketing_annual,
         fee_annual_runrate |-> fee_annual,
         occupancy_annual_runrate |-> occupancy_annual,
         ebitda_month |-> ebitda_month,
         ebitda_pct_month |-> PctOfRevenue(ebitda_month, revenue_month),
         ebitda_annual_runrate |-> ebitda_annual,
         ebitda_pct_annual_runrate |-> PctOfRevenue(ebitda_annual, revenue_annual_runrate),
         prime_cost_pct |-> PctOfRevenue(RAdd(cogs_annual, labor_annual), revenue_annual_runrate),
         occupancy_pct |-> PctOfRevenue(occupancy_annual, revenue_annual_runrate),
         controllable_costs_pct |->
             PctOfRevenue(RAdd(RAdd(RAdd(RAdd(cogs_annual, labor_annual), opex_annual),
                                    marketing_annual), fee_annual),
                          revenue_annual_runrate),
         cash_invested |-> cash_invested,
         capex |-> i.capex,
         deposits |-> i.deposits,
         immobilizations |-> i.immobilizations,
         guarantees |-> i.guarantees,
         payback_months |-> PaybackMonths(cash_invested, ebitda_month),
         roi_annual |-> RoiAnnual(ebitda_annual, cash_invested),
         break_even_revenue_month |-> break_even_revenue_month,
         break_even_revenue_annual |-> break_even_revenue_annual,
         break_even_orders_day |->
             BreakEvenOrdersDay(break_even_revenue_month, blended_ticket, open_days_per_month),
         break_even_curve |-> NoCurve,
         fixed_costs_month |-> fixed_costs_month,
         variable_rate |-> RSub(One, contribution_margin),
         contribution_margin |-> contribution_margin,
         quarter_weights |-> i.quarter_weights,
         ramp_up_months |-> ramp_up_months,
         ramp_up_floor |-> ramp_up_floor,
         revenue_annual_y1 |-> revenue_annual_y1,
         cogs_annual_y1 |-> cogs_annual_y1,
         labor_annual_y1 |-> labor_annual_y1,
         opex_annual_y1 |-> opex_annual_y1,
         marketing_annual_y1 |-> marketing_annual_y1,
         fee_annual_y1 |-> fee_annual_y1,
         occupancy_annual_y1 |-> occupancy_annual_y1,
         ebitda_annual_y1 |-> ebitda_annual_y1,
         ebitda_pct_annual_y1 |-> PctOfRevenue(ebitda_annual_y1, revenue_annual_y1),
         roi_annual_y1 |-> RoiAnnual(ebitda_annual_y1, cash_invested),
         payback_months_y1 |-> PaybackMonthsY1(cash_invested, ebitda_annual_y1)]

\* the dict calculate_financials returns
calculate_financials(i) ==
    LET f == Financials(i)
    IN  [f EXCEPT !.break_even_curve =
                      BreakEvenCurve(f.contribution_margin, f.fixed_costs_month,
                                     f.revenue_annual_runrate, f.break_even_revenue_annual)]

\* EBITDA of the month at a monthly revenue of revenue_month, the costs as configured in i
EbitdaAt(i, revenue_month) ==
    EbitdaMonth(revenue_month,
                _cost_amount(revenue_month, i.cogs_mode, i.cogs_pct, i.cogs_eur),
                _cost_amount(revenue_month, i.labor_mode, i.labor_pct, i.labor_eur),
                _cost_amount(revenue_month, i.opex_mode, i.opex_pct, i.opex_eur),
                _cost_amount(revenue_month, i.marketing_mode, i.marketing_pct, i.marketing_eur),
                _cost_amount(revenue_month, i.fee_mode, i.fee_pct, i.fee_eur),
                OccupancyMonth(i.rent_fixed_month, i.service_charges_month))

----------------------------------------------------------------------------
(* evaluate_feasibility *)

Pct(k) == Rat(k, PctScale)

EbitdaReason(ebitda_pct) ==
    IF RLt(ebitda_pct, Pct(8)) THEN "EBITDA < 8%"
    ELSE IF RLt(ebitda_pct, Pct(12)) THEN "EBITDA 8%-12%"
    ELSE IF RLt(ebitda_pct, Pct(18)) THEN "EBITDA 12%-18%"
    ELSE "EBITDA >= 18%"

\* mutant: the 55% bound of the prime cost taken exclusive
PrimeCostReason_Strict(prime_cost) ==
    IF RLt(prime_cost, Pct(55)) THEN "Prime Cost <= 55%"
    ELSE IF RLe(prime_cost, Pct(65)) THEN "Prime Cost 55%-65%"
    ELSE "Prime Cost > 65%"

PrimeCostReason(prime_cost) ==
    IF RLe(prime_cost, Pct(55)) THEN "Prime Cost <= 55%"
    ELSE IF RLe(prime_cost, Pct(65)) THEN "Prime Cost 55%-65%"
    ELSE "Prime Cost > 65%"

OccupancyReason(occupancy) ==
    IF RLe(occupancy, Pct(10)) THEN "Occupancy <= 10%"
    ELSE IF RLe(occupancy, Pct(14)) THEN "Occupancy 10%-14%"
    ELSE "Occupancy > 14%"

\* mutant: GO up to a prime cost of 70%
IsGo_LoosePrime(ebitda_pct, prime_cost, occupancy) ==
    /\ RGe(ebitda_pct, Pct(15))
    /\ RLe(prime_cost, Pct(70))
    /\ RLe(occupancy, Pct(12))

\* mutant: the EBITDA bound of GO taken exclusive
IsGo_Strict(ebitda_pct, prime_cost, occupancy) ==
    /\ RGt(ebitda_pct, Pct(15))
    /\ RLe(prime_cost, Pct(60))
    /\ RLe(occupancy, Pct(12))

IsGo(ebitda_pct, prime_cost, occupancy) ==
    /\ RGe(ebitda_pct, Pct(15))
    /\ RLe(prime_cost, Pct(60))
    /\ RLe(occupancy, Pct(12))

IsReview(ebitda_pct) == RGe(ebitda_pct, Pct(10))

\* mutant: a prime cost above 65% vetoes the project
FeasibilityStatus_PrimeVeto(ebitda_pct, prime_cost, occupancy) ==
    IF IsGo(ebitda_pct, prime_cost, occupancy) THEN "GO"
    ELSE IF IsReview(ebitda_pct) /\ RLe(prime_cost, Pct(65)) THEN "REVIEW"
    ELSE "NO_GO"

FeasibilityStatus(ebitda_pct, prime_cost, occupancy) ==
    IF IsGo(ebitda_pct, prime_cost, occupancy) THEN "GO"
    ELSE IF IsReview(ebitda_pct) THEN "REVIEW"
    ELSE "NO_GO"

evaluate_feasibility(r) ==
    LET ebitda_pct == r.ebitda_pct_annual_runrate
        prime_cost == r.prime_cost_pct
        occupancy == r.occupancy_pct
    IN  [status |-> FeasibilityStatus(ebitda_pct, prime_cost, occupancy),
         reasons |-> <<EbitdaReason(ebitda_pct), PrimeCostReason(prime_cost),
                       OccupancyReason(occupancy)>>]

----------------------------------------------------------------------------
(* The FTE output model of the script (app.py 3053-3144) *)

\* _num(x, default): None falls to the default; the values here are numbers or None
_num(x, default) == IF IsNone(x) THEN default ELSE x

HoursPerFteFloor == 1

TargetIncScale == 100

DefaultOpenDays == 30

FteHoursPerFte(hours_per_fte) == RMax(FromInt(HoursPerFteFloor), hours_per_fte)

FteTargetInc(target_inc) == RDiv(target_inc, FromInt(TargetIncScale))

\* mutant: the first-year view whenever seasonality is on
FteUsesY1_SeasonOnly(s) == s.ramp_enable

FteUsesY1(s) == s.fte_use_y1 /\ s.ramp_enable

FteRevenueBase(r, s) ==
    IF FteUsesY1(s) THEN _num(r.revenue_annual_y1, Zero)
    ELSE _num(r.revenue_annual_runrate, Zero)

FteLaborBaseAnnualM1(r, s) ==
    IF FteUsesY1(s) THEN _num(r.labor_annual_y1, Zero)
    ELSE _num(r.labor_annual_runrate, Zero)

FteLaborBaseAnnual(r, s) ==
    IF s.fte_method = "m2"
    THEN Clamp0(RMul(FteRevenueBase(r, s), FteTargetInc(_num(s.fte_target_inc, Zero))))
    ELSE Clamp0(FteLaborBaseAnnualM1(r, s))

\* (cost / fte_hourly_cost) if fte_hourly_cost > 0 else 0.0
FteLaborHours(labor_cost_annual, fte_hourly_cost) ==
    IF RGt(fte_hourly_cost, Zero) THEN RDiv(labor_cost_annual, fte_hourly_cost) ELSE Zero

\* (hours / fte_hours_per_fte) if fte_hours_per_fte > 0 else 0.0
FteOfHours(labor_hours_annual, fte_hours_per_fte) ==
    IF RGt(fte_hours_per_fte, Zero) THEN RDiv(labor_hours_annual, fte_hours_per_fte) ELSE Zero

_hours_between_local(start_s, end_s) ==
    LET s == Strip(start_s)
        e == Strip(end_s)
    IN  IF Len(s) # 5 \/ Len(e) # 5 THEN None
        ELSE IF s[3] # ":" \/ e[3] # ":" THEN None
        ELSE LET sh == IntOfTwo(s[1], s[2])
                 sm == IntOfTwo(s[4], s[5])
                 eh == IntOfTwo(e[1], e[2])
                 em == IntOfTwo(e[4], e[5])
                 smin == sh * MinutesPerHour + sm
                 emin0 == eh * MinutesPerHour + em
                 emin == IF emin0 < smin THEN emin0 + MinutesPerDay ELSE emin0
             IN  IF BadInt \in {sh, sm, eh, em} THEN None
                 ELSE IF ~(/\ 0 <= sh /\ sh <= 23 /\ 0 <= eh /\ eh <= 23
                           /\ 0 <= sm /\ sm <= 59 /\ 0 <= em /\ em <= 59) THEN None
                 ELSE IF emin = smin THEN None
                 ELSE Rat(emin - smin, MinutesPerHour)

\* int(st.session_state.get("open_days", 30) or 30)
OpenDaysVal(open_days) == IF open_days = 0 THEN DefaultOpenDays ELSE open_days

TmpRow(dp, open_days_val) ==
    [label |-> dp.key,
     rev_month |-> Clamp0(RMul(RMul(_num(dp.orders_per_day, Zero), _num(dp.ticket_avg, Zero)),
                               FromInt(open_days_val))),
     hours_day |-> _hours_between_local(dp.start_time, dp.end_time)]

TmpRows(daypart_inputs, open_days_val) ==
    [k \in 1..Len(daypart_inputs) |-> TmpRow(daypart_inputs[k], open_days_val)]

TotMonthRev(tmp_rows) == RSum([k \in 1..Len(tmp_rows) |-> tmp_rows[k].rev_month])

\* mutant: every segment an equal share, whatever its revenue
Share_Equal(rev_month, tot_month_rev, row_count) == Rat(1, row_count)

Share(rev_month, tot_month_rev, row_count) ==
    IF RGt(tot_month_rev, Zero) THEN RDiv(rev_month, tot_month_rev) ELSE Rat(1, row_count)

AvgOnShift(hours_day, open_days_val, labor_hours_annual_alloc) ==
    IF ~IsNone(hours_day) /\ hours_day # Zero /\ open_days_val > 0
    THEN LET annual_slot_hours ==
                 RMul(RMul(hours_day, FromInt(open_days_val)), FromInt(MonthsPerYear))
         IN  IF RGt(annual_slot_hours, Zero)
             THEN RDiv(labor_hours_annual_alloc, annual_slot_hours)
             ELSE None
    ELSE None

FteDaypartRow(r, tot_month_rev, row_count, fte_labor_base_annual, fte_hourly_cost, fte_hours_per_fte, open_days_val) ==
    LET share == Share(r.rev_month, tot_month_rev, row_count)
        labor_cost_annual_alloc == RMul(fte_labor_base_annual, share)
        labor_hours_annual_alloc == FteLaborHours(labor_cost_annual_alloc, fte_hourly_cost)
    IN  [label |-> r.label,
         share |-> share,
         cost_annual |-> labor_cost_annual_alloc,
         hours_annual |-> labor_hours_annual_alloc,
         fte |-> FteOfHours(labor_hours_annual_alloc, fte_hours_per_fte),
         avg_on_shift |-> AvgOnShift(r.hours_day, open_days_val, labor_hours_annual_alloc)]

\* everything the FTE block computes from the results, the session and the segments
FteOutput(r, s, daypart_inputs) ==
    LET fte_hourly_cost == _num(s.fte_hourly_cost, Zero)
        fte_hours_per_fte == FteHoursPerFte(_num(s.fte_hours_per_fte, FromInt(1720)))
        fte_labor_base_annual == FteLaborBaseAnnual(r, s)
        fte_labor_hours_annual == FteLaborHours(fte_labor_base_annual, fte_hourly_cost)
        open_days_val == OpenDaysVal(s.open_days)
        tmp_rows == TmpRows(daypart_inputs, open_days_val)
        tot_month_rev == TotMonthRev(tmp_rows)
    IN  [fte_hourly_cost |-> fte_hourly_cost,
         fte_hours_per_fte |-> fte_hours_per_fte,
         fte_revenue_base |-> FteRevenueBase(r, s),
         fte_labor_base_annual |-> fte_labor_base_annual,
         fte_labor_base_month |-> RDiv(fte_labor_base_annual, FromInt(MonthsPerYear)),
         fte_labor_hours_annual |-> fte_labor_hours_annual,
         fte_total |-> FteOfHours(fte_labor_hours_annual, fte_hours_per_fte),
         tmp_rows |-> tmp_rows,
         tot_month_rev |-> tot_month_rev,
         fte_daypart_rows |->
             [k \in 1..Len(tmp_rows) |->
                 FteDaypartRow(tmp_rows[k], tot_month_rev, Len(tmp_rows), fte_labor_base_annual,
                               fte_hourly_cost, fte_hours_per_fte, open_days_val)]]

----------------------------------------------------------------------------
(* The inputs the engine is applied to *)

MaxPctK == 2

MaxDayparts == 2

MaxDelta == 1

PctValues == {Pct(25 * k) : k \in 0..MaxPctK}

EurValues == {Zero, FromInt(500)}

Lines == {"cogs", "labor", "opex", "marketing", "fee"}

NextLine(line) ==
    CASE line = "cogs" -> "labor"
      [] line = "labor" -> "opex"
      [] line = "opex" -> "marketing"
      [] line = "marketing" -> "fee"
      [] line = "fee" -> "cogs"

Dp(o, t) ==
    [key |-> "dp", orders_per_day |-> FromInt(o), ticket_avg |-> FromInt(t),
     start_time |-> NoTime, end_time |-> NoTime]

\* one segment of 100 orders at a ticket of 10, 30 open days; three lines at 25% of
\* revenue; rent 3000 and service charges 500; no investment, no seasonality
BaseInput ==
    [dayparts |-> <<Dp(100, 10)>>,
     open_days_per_month |-> 30,
     cogs_mode |-> "pct", labor_mode |-> "pct", opex_mode |-> "pct",
     marketing_mode |-> "pct", fee_mode |-> "pct",
     cogs_pct |-> Pct(25), labor_pct |-> Pct(25), opex_pct |-> Pct(25),
     marketing_pct |-> Zero, fee_pct |-> Zero,
     cogs_eur |-> Zero, labor_eur |-> Zero, opex_eur |-> Zero,
     marketing_eur |-> Zero, fee_eur |-> Zero,
     rent_fixed_month |-> FromInt(3000),
     service_charges_month |-> FromInt(500),
     capex |-> Zero, deposits |-> Zero, immobilizations |-> Zero, guarantees |-> Zero,
     quarter_weights |-> <<>>,
     ramp_up_months |-> 0,
     ramp_up_floor |-> Rat(65, 100)]

\* input i with cost line `line` set to (mode, pct, eur)
WithLine(i, line, mode, pct, eur) ==
    CASE line = "cogs" -> [i EXCEPT !.cogs_mode = mode, !.cogs_pct = pct, !.cogs_eur = eur]
      [] line = "labor" -> [i EXCEPT !.labor_mode = mode, !.labor_pct = pct, !.labor_eur = eur]
      [] line = "opex" -> [i EXCEPT !.opex_mode = mode, !.opex_pct = pct, !.opex_eur = eur]
      [] line = "marketing" ->
            [i EXCEPT !.marketing_mode = mode, !.marketing_pct = pct, !.marketing_eur = eur]
      [] line = "fee" -> [i EXCEPT !.fee_mode = mode, !.fee_pct = pct, !.fee_eur = eur]

LineOf(i, line) ==
    CASE line = "cogs" -> <<i.cogs_mode, i.cogs_pct, i.cogs_eur>>
      [] line = "labor" -> <<i.labor_mode, i.labor_pct, i.labor_eur>>
      [] line = "opex" -> <<i.opex_mode, i.opex_pct, i.opex_eur>>
      [] line = "marketing" -> <<i.marketing_mode, i.marketing_pct, i.marketing_eur>>
      [] line = "fee" -> <<i.fee_mode, i.fee_pct, i.fee_eur>>

WithOccupancy(i, rent, service) ==
    [i EXCEPT !.rent_fixed_month = FromInt(rent), !.service_charges_month = FromInt(service)]

Occupancies == {<<0, 0>>, <<3000, 500>>}

\* a cost line and the next one set freely, with and without occupancy
CostInputs ==
    {WithOccupancy(WithLine(WithLine(BaseInput, a, ma, pa, ea), NextLine(a), mb, pb, eb),
                   o[1], o[2]) :
        a \in Lines, ma \in {"pct", "eur"}, pa \in PctValues, ea \in EurValues,
        mb \in {"pct", "eur"}, pb \in PctValues, eb \in EurValues, o \in Occupancies}

\* the spellings (mode or "pct").lower() accepts
ModeSpellings == {"PCT", "Pct", "EUR", "Eur", ""}

ModeInputs ==
    {WithLine(BaseInput, a, m, p, e) :
        a \in Lines, m \in ModeSpellings, p \in PctValues, e \in EurValues}

\* every line a fixed monthly amount
AllFixedInput ==
    [BaseInput EXCEPT !.cogs_mode = "eur", !.labor_mode = "eur", !.opex_mode = "eur",
                      !.marketing_mode = "eur", !.fee_mode = "eur",
                      !.cogs_eur = FromInt(500), !.labor_eur = FromInt(500),
                      !.opex_eur = FromInt(500)]

RECURSIVE SeqsUpTo(_, _)
SeqsUpTo(S, k) ==
    IF k = 0 THEN {<<>>}
    ELSE LET shorter == SeqsUpTo(S, k - 1)
         IN  shorter \cup {Append(q, x) : q \in shorter, x \in S}

Segments == {Dp(100, 10), Dp(0, 10), Dp(-5, 10), Dp(100, -2), Dp(-5, -2)}

OpenDays == {1, 14, 30}

DaypartInputs ==
    {[b EXCEPT !.dayparts = dps, !.open_days_per_month = od] :
        b \in {BaseInput, AllFixedInput, WithOccupancy(BaseInput, 0, 0)},
        dps \in SeqsUpTo(Segments, MaxDayparts), od \in OpenDays}

QuarterWeightChoices ==
    {<<>>,
     <<FromInt(25), FromInt(25), FromInt(25), FromInt(25)>>,
     <<FromInt(10), FromInt(20), FromInt(30), FromInt(40)>>}

\* capex, deposits, immobilizations, guarantees
Investments ==
    {<<0, 0, 0, 0>>, <<20000, 0, 0, 0>>, <<0, 5000, 0, 0>>, <<0, 0, 1000, 0>>,
     <<0, 0, 0, 1000>>, <<20000, 5000, 1000, 1000>>}

WithInvestment(i, v) ==
    [i EXCEPT !.capex = FromInt(v[1]), !.deposits = FromInt(v[2]),
              !.immobilizations = FromInt(v[3]), !.guarantees = FromInt(v[4])]

WithSeasonality(i, qw, rm, fl) ==
    [i EXCEPT !.quarter_weights = qw, !.ramp_up_months = rm, !.ramp_up_floor = fl]

InvestInputs ==
    {WithInvestment([b EXCEPT !.open_days_per_month = od], v) :
        b \in {BaseInput,
               WithSeasonality(BaseInput,
                               <<FromInt(10), FromInt(20), FromInt(30), FromInt(40)>>,
                               3, Rat(65, 100)),
               WithSeasonality(BaseInput, <<>>, 12, Zero)},
        od \in OpenDays \cup {15}, v \in Investments}

SeasonInputs ==
    {WithInvestment(WithSeasonality([BaseInput EXCEPT !.open_days_per_month = od],
                                    qw, rm, fl), v) :
        od \in OpenDays, qw \in QuarterWeightChoices, rm \in {0, 1, 3, 12},
        fl \in {Zero, Rat(65, 100), One}, v \in {<<0, 0, 0, 0>>, <<20000, 0, 0, 0>>}}

Qw(a, b, c, d) == <<FromInt(a), FromInt(b), FromInt(c), FromInt(d)>>

\* quarter weights as the four number inputs give them (0 to 100 each, any total),
\* and lists that are not four values
RawQuarterWeights ==
    {<<>>, Qw(25, 25, 25, 25), Qw(10, 20, 30, 40), Qw(30, 30, 30, 60), Qw(0, 0, 0, 0),
     Qw(100, 0, 0, 0), Qw(0, 0, 0, 100), <<FromInt(50), FromInt(30), FromInt(20)>>}

\* every position of the ramp slider, and one value past each end for the clamp
RampMonthsChoices == (0 - 1)..(MaxRampMonths + 1)

RampFloorChoices == {Rat(0 - 1, 2), Zero, Rat(1, 5), Rat(65, 100), One, Rat(3, 2)}

RampInputs ==
    {WithSeasonality(BaseInput, qw, rm, fl) :
        qw \in RawQuarterWeights, rm \in RampMonthsChoices, fl \in RampFloorChoices}

\* one cost line set freely under a seasonal, ramping first year, with and
\* without revenue
Y1CostInputs ==
    {WithLine(WithSeasonality([BaseInput EXCEPT !.dayparts = dps], sp[1], sp[2], sp[3]),
              a, m, p, e) :
        dps \in {<<Dp(100, 10)>>, <<>>},
        sp \in {<<Qw(10, 20, 30, 40), 3, Rat(65, 100)>>, <<<<>>, 12, Zero>>},
        a \in Lines, m \in {"pct", "eur"}, p \in PctValues, e \in EurValues}

\* no segments at all, the first two cost lines set freely, with and without
\* occupancy
NoRevenueInputs ==
    {WithOccupancy(WithLine(WithLine([BaseInput EXCEPT !.dayparts = <<>>],
                                     "cogs", ma, pa, ea), "labor", mb, pb, eb),
                   o[1], o[2]) :
        ma \in {"pct", "eur"}, pa \in PctValues, ea \in EurValues,
        mb \in {"pct", "eur"}, pb \in PctValues, eb \in EurValues, o \in Occupancies}

\* 100 orders at 10 on 30 days; COGS 30%, labor 30%, OPEX 12%, marketing 3%, fee 0%,
\* all of revenue; rent 3000 and service charges 500
ScenarioInput ==
    [BaseInput EXCEPT !.cogs_pct = Pct(30), !.labor_pct = Pct(30), !.opex_pct = Pct(12),
                      !.marketing_pct = Pct(3), !.fee_pct = Zero]

\* a time text HH:MM
Tm(a, b, c, d) == <<a, b, ":", c, d>>

DpAt(key, o, t, start_time, end_time) ==
    [key |-> key, orders_per_day |-> FromInt(o), ticket_avg |-> FromInt(t),
     start_time |-> start_time, end_time |-> end_time]

\* segments by their times: three hours at noon, four hours across midnight, no
\* times, a start of four characters, equal times, an hour of 25, a minute short of
\* a day, a sign for a digit, blanks around the text, a start alone
HourSegments ==
    {DpAt("lunch", 100, 10, Tm("1", "2", "0", "0"), Tm("1", "5", "0", "0")),
     DpAt("night", 50, 20, Tm("2", "2", "0", "0"), Tm("0", "2", "0", "0")),
     DpAt("idle", 30, 10, NoTime, NoTime),
     DpAt("odd", 20, 5, <<"9", ":", "3", "0">>, Tm("1", "1", "0", "0")),
     DpAt("same", 40, 5, Tm("1", "0", "0", "0"), Tm("1", "0", "0", "0")),
     DpAt("late", 10, 10, Tm("2", "0", "0", "0"), Tm("2", "5", "0", "0")),
     DpAt("long", 10, 30, Tm("0", "0", "0", "1"), Tm("0", "0", "0", "0")),
     DpAt("sign", 10, 20, Tm("-", "1", "3", "0"), Tm("1", "1", "0", "0")),
     DpAt("blank", 20, 10, <<" ">> \o Tm("0", "9", "3", "0"), Tm("1", "1", "0", "0") \o <<" ">>),
     DpAt("open", 10, 10, Tm("0", "8", "0", "0"), NoTime)}

HourlyInputs ==
    {[BaseInput EXCEPT !.dayparts = dps] : dps \in SeqsUpTo(HourSegments, MaxDayparts)}

\* the modes a caller can pass: the two of the script, their other spellings, none,
\* and other words
AnyModes == {"pct", "eur", "", "PCT", "Eur", "fixed", "FIXED", "Percent"}

\* one line in any mode at 10% or 25% and 500 or 2000 a month, with and without
\* seasonality
AnyModeInputs ==
    {WithLine(b, a, m, p, e) :
        b \in {BaseInput,
               WithSeasonality(BaseInput, Qw(10, 20, 30, 40), 3, Rat(65, 100))},
        a \in Lines, m \in AnyModes, p \in {Pct(10), Pct(25)},
        e \in {FromInt(500), FromInt(2000)}}

Inputs ==
    CostInputs \cup ModeInputs \cup DaypartInputs \cup InvestInputs \cup SeasonInputs
        \cup RampInputs \cup Y1CostInputs \cup NoRevenueInputs \cup {ScenarioInput}
        \cup HourlyInputs

\* the three ratios evaluate_feasibility reads, around each of its thresholds
Permille(k) == Rat(k, 1000)

Around(T) == {Permille(10 * t + dl) : t \in T, dl \in -MaxDelta..MaxDelta}

EbitdaPcts == Around({8, 10, 12, 15, 18}) \cup {Permille(-50), Zero}

PrimeCostPcts == Around({55, 60, 65}) \cup {Zero}

OccupancyPcts == Around({10, 12, 14}) \cup {Zero}

\* three hours at noon, four hours across midnight, a segment without orders or
\* times, a start time of four characters
FteSegments ==
    {DpAt("lunch", 100, 10, Tm("1", "2", "0", "0"), Tm("1", "5", "0", "0")),
     DpAt("night", 50, 20, Tm("2", "2", "0", "0"), Tm("0", "2", "0", "0")),
     DpAt("idle", 0, 10, NoTime, NoTime),
     DpAt("odd", 20, 5, <<"9", ":", "3", "0">>, Tm("1", "1", "0", "0"))}

\* the session values the FTE block reads; the free-value inputs start at 0
HourlyCosts == {Zero, FromInt(18)}

HoursPerFteChoices == {Rat(1, 2), FromInt(1720)}

Sessions ==
    [fte_method : {"m1", "m2"},
     fte_use_y1 : BOOLEAN,
     fte_hourly_cost : HourlyCosts,
     fte_hours_per_fte : HoursPerFteChoices,
     fte_target_inc : {FromInt(30)},
     ramp_enable : BOOLEAN,
     open_days : {30}]

\* the arguments the script passes for a session (app.py 2894-2932): the
\* seasonality arguments only when seasonality is enabled
FteInputs(s) ==
    {[(IF s.ramp_enable
       THEN WithSeasonality(BaseInput, Qw(10, 20, 30, 40), 3, Rat(65, 100))
       ELSE BaseInput)
      EXCEPT !.dayparts = dps, !.open_days_per_month = s.open_days] :
        dps \in SeqsUpTo(FteSegments, MaxDayparts)}

\* the segments of FteSegments and segments with orders, ticket or both below 0
AnySegments ==
    FteSegments \cup {DpAt("returns", 0 - 5, 10, NoTime, NoTime),
                      DpAt("refund", 100, 0 - 2, NoTime, NoTime),
                      DpAt("void", 0 - 5, 0 - 2, NoTime, NoTime)}

\* one staffing setting, every open-days value the engine takes
AnySessions ==
    [fte_method : {"m1"},
     fte_use_y1 : {FALSE},
     fte_hourly_cost : {FromInt(18)},
     fte_hours_per_fte : {FromInt(1720)},
     fte_target_inc : {FromInt(30)},
     ramp_enable : {FALSE},
     open_days : {0, 1, 30}]

AnyFteInputs(s) ==
    {[BaseInput EXCEPT !.dayparts = dps, !.open_days_per_month = s.open_days] :
        dps \in SeqsUpTo(AnySegments, MaxDayparts)}

----------------------------------------------------------------------------
(* The run of the script: compute (app.py 2894), then classify (app.py 2934) *)

Pending == [pending |-> TRUE]

NoInput == [given |-> FALSE]

Init ==
    /\ inp \in Inputs
    /\ results = Pending
    /\ fe = Pending
    /\ pc = "compute"
    /\ session = NoInput
    /\ staffing = Pending

Calculate ==
    /\ pc = "compute"
    /\ results' = calculate_financials(inp)
    /\ pc' = "classify"
    /\ UNCHANGED <<inp, fe, session, staffing>>

Evaluate ==
    /\ pc = "classify"
    /\ fe' = evaluate_feasibility(results)
    /\ pc' = "done"
    /\ UNCHANGED <<inp, results, session, staffing>>

Next == Calculate \/ Evaluate

Spec == Init /\ [][Next]_vars

\* evaluate_feasibility applied to a dict holding the three ratios it reads
InitFeas ==
    /\ inp = NoInput
    /\ results \in [ebitda_pct_annual_runrate : EbitdaPcts,
                    prime_cost_pct : PrimeCostPcts,
                    occupancy_pct : OccupancyPcts]
    /\ fe = Pending
    /\ pc = "classify"
    /\ session = NoInput
    /\ staffing = Pending

NextFeas == Evaluate

SpecFeas == InitFeas /\ [][NextFeas]_vars

\* the whole script: compute, classify, then the FTE block on the same segments
\* calculate_financials called with any mode text
InitModes ==
    /\ inp \in AnyModeInputs
    /\ results = Pending
    /\ fe = Pending
    /\ pc = "compute"
    /\ session = NoInput
    /\ staffing = Pending

SpecModes == InitModes /\ [][Next]_vars

InitFte ==
    /\ session \in Sessions
    /\ inp \in FteInputs(session)
    /\ results = Pending
    /\ fe = Pending
    /\ pc = "compute"
    /\ staffing = Pending

Allocate ==
    /\ pc = "done"
    /\ staffing' = FteOutput(results, session, inp.dayparts)
    /\ pc' = "allocated"
    /\ UNCHANGED <<inp, results, fe, session>>

NextFte == Calculate \/ Evaluate \/ Allocate

SpecFte == InitFte /\ [][NextFte]_vars

\* the same run on any segment list
InitFteAny ==
    /\ session \in AnySessions
    /\ inp \in AnyFteInputs(session)
    /\ results = Pending
    /\ fe = Pending
    /\ pc = "compute"
    /\ staffing = Pending

SpecFteAny == InitFteAny /\ [][NextFte]_vars

----------------------------------------------------------------------------
(* Properties *)

Computed == pc # "compute"

Classified == pc = "done"

CostsMonth(r) ==
    RAdd(RAdd(RAdd(RAdd(r.cogs_month, r.labor_month), r.opex_month), r.marketing_month),
         r.fee_month)

\* C1: the monthly figures add up: EBITDA plus the five resolved cost lines plus
\* occupancy is the revenue of the month, and occupancy is rent plus service charges.
C1_EbitdaIdentity ==
    Computed =>
        /\ RAdd(RAdd(results.ebitda_month, CostsMonth(results)), results.occupancy_month)
               = results.revenue_month
        /\ results.occupancy_month = RAdd(inp.rent_fixed_month, inp.service_charges_month)

C1_Witness ==
    /\ Computed
    /\ RGt(results.revenue_month, Zero)
    /\ RGt(results.fee_month, Zero)
    /\ RGt(results.cogs_month, Zero)
    /\ RGt(results.occupancy_month, Zero)
    /\ RLt(results.ebitda_month, Zero)

BreakEvenDefinedFor(r) ==
    RGt(r.contribution_margin, Zero) /\ RGt(r.fixed_costs_month, Zero)

\* C2: break-even is defined exactly when the contribution margin and the monthly
\* fixed costs are both positive; otherwise the monthly and annual break-even
\* revenue, the break-even orders per day and the curve are all None. A defined
\* break-even revenue is a positive number.
C2_BreakEvenDefinedIff ==
    Computed =>
        /\ BreakEvenDefinedFor(results) <=> ~IsNone(results.break_even_revenue_month)
        /\ BreakEvenDefinedFor(results) =>
              /\ RGt(results.break_even_revenue_month, Zero)
              /\ ~IsNone(results.break_even_revenue_annual)
              /\ RGt(results.break_even_revenue_annual, Zero)
              /\ results.break_even_curve # NoCurve
        /\ ~BreakEvenDefinedFor(results) =>
              /\ IsNone(results.break_even_revenue_month)
              /\ IsNone(results.break_even_revenue_annual)
              /\ IsNone(results.break_even_orders_day)
              /\ results.break_even_curve = NoCurve

\* no fixed costs at all, and a positive margin: nothing to break even on
C2_Witness ==
    /\ Computed
    /\ results.fixed_costs_month = Zero
    /\ RGt(results.contribution_margin, Zero)
    /\ IsNone(results.break_even_revenue_month)
    /\ results.break_even_curve = NoCurve

\* C3: break-even is undefined when the variable rate is 1 or more or the fixed
\* costs are 0; for every other input it is defined, the monthly break-even
\* revenue times the contribution margin is the fixed costs of the month, and the
\* annual break-even revenue is 12 times the monthly one.
C3_BreakEvenEquation ==
    Computed =>
        IF RGe(results.variable_rate, One) \/ results.fixed_costs_month = Zero
        THEN IsNone(results.break_even_revenue_month)
        ELSE /\ ~IsNone(results.break_even_revenue_month)
             /\ RMul(results.break_even_revenue_month, results.contribution_margin)
                    = results.fixed_costs_month
             /\ results.break_even_revenue_annual
                    = RMul(FromInt(12), results.break_even_revenue_month)

C3_Witness ==
    /\ Computed
    /\ RLt(results.variable_rate, One)
    /\ RGt(results.variable_rate, Zero)
    /\ results.fixed_costs_month # Zero
    /\ ~IsNone(results.break_even_revenue_month)
    /\ results.break_even_revenue_month # results.fixed_costs_month

\* C4: whenever break-even is defined, EBITDA at a monthly revenue R is the
\* contribution margin times R minus the fixed costs: 0 at the break-even revenue,
\* negative below it and positive above it, for the computed month as well.
C4_BreakEvenIsEbitdaZero ==
    (Computed /\ ~IsNone(results.break_even_revenue_month)) =>
        LET be == results.break_even_revenue_month
            cm == results.contribution_margin
            fx == results.fixed_costs_month
            rv == results.revenue_month
        IN  /\ results.ebitda_month = RSub(RMul(cm, rv), fx)
            /\ EbitdaAt(inp, be) = Zero
            /\ \A k \in 1..3 :
                  /\ RLt(EbitdaAt(inp, RMul(be, Rat(k, 4))), Zero)
                  /\ RGt(EbitdaAt(inp, RMul(be, Rat(4 + k, 4))), Zero)
                  /\ EbitdaAt(inp, RMul(be, Rat(k, 2)))
                         = RSub(RMul(cm, RMul(be, Rat(k, 2))), fx)
            /\ rv = be => results.ebitda_month = Zero
            /\ RLt(rv, be) => RLt(results.ebitda_month, Zero)
            /\ RGt(rv, be) => RGt(results.ebitda_month, Zero)

\* the month's revenue is exactly the break-even revenue
C4_Witness ==
    /\ Computed
    /\ ~IsNone(results.break_even_revenue_month)
    /\ results.revenue_month = results.break_even_revenue_month
    /\ RGt(results.variable_rate, Zero)
    /\ results.ebitda_month = Zero

PercentModes == {"pct", "PCT", "Pct", ""}

FixedModes == {"eur", "EUR", "Eur"}

PercentLines(i) == {l \in Lines : LineOf(i, l)[1] \in PercentModes}

FixedLines(i) == {l \in Lines : LineOf(i, l)[1] \in FixedModes}

\* the sum over the lines of S of their percent (k = 2) or fixed amount (k = 3)
RECURSIVE SumOfLines(_, _, _)
SumOfLines(i, S, k) ==
    IF S = {} THEN Zero
    ELSE LET l == CHOOSE x \in S : TRUE
         IN  RAdd(LineOf(i, l)[k], SumOfLines(i, S \ {l}, k))

JustComputed == pc = "classify"

WithoutCurve(r) == [r EXCEPT !.break_even_curve = NoCurve]

\* C5: the solver classifies the five lines by mode only: the variable rate is the
\* sum of the percents of the percent-mode lines, the fixed costs are occupancy plus
\* the fixed amounts of the fixed-mode lines, the margin is 1 minus the variable
\* rate; switching one percent-mode line to fixed mode takes its percent out of the
\* variable rate and puts its fixed amount into the fixed costs, nothing else.
C5_ClassifiedByMode ==
    JustComputed =>
        /\ results.variable_rate = SumOfLines(inp, PercentLines(inp), 2)
        /\ results.fixed_costs_month
               = RAdd(results.occupancy_month, SumOfLines(inp, FixedLines(inp), 3))
        /\ results.contribution_margin = RSub(One, results.variable_rate)
        /\ \A l \in PercentLines(inp) :
              LET ln == LineOf(inp, l)
                  sw == Financials(WithLine(inp, l, "eur", ln[2], FromInt(500)))
              IN  /\ sw.variable_rate = RSub(results.variable_rate, ln[2])
                  /\ sw.fixed_costs_month = RAdd(results.fixed_costs_month, FromInt(500))

\* a fixed-mode line that also carries a percent, beside a percent-mode line that
\* also carries a fixed amount
C5_Witness ==
    /\ JustComputed
    /\ \E l \in FixedLines(inp) : LineOf(inp, l)[2] # Zero /\ LineOf(inp, l)[3] # Zero
    /\ \E l \in PercentLines(inp) : LineOf(inp, l)[2] # Zero /\ LineOf(inp, l)[3] # Zero

\* C6: the inactive value of a line is ignored: another percent on a fixed-mode
\* line, or another fixed amount on a percent-mode line, changes no derived figure.
C6_InactiveValueIgnored ==
    JustComputed =>
        \A l \in Lines :
            LET ln == LineOf(inp, l)
            IN  /\ l \in FixedLines(inp) =>
                      \A p \in {Zero, Pct(7)} \ {ln[2]} :
                          Financials(WithLine(inp, l, ln[1], p, ln[3])) = WithoutCurve(results)
                /\ l \in PercentLines(inp) =>
                      \A e \in {Zero, FromInt(1234)} \ {ln[3]} :
                          Financials(WithLine(inp, l, ln[1], ln[2], e)) = WithoutCurve(results)

\* a fixed-mode line with a percent on it, and revenue for the percent to act on
C6_Witness ==
    /\ JustComputed
    /\ RGt(results.revenue_month, Zero)
    /\ \E l \in FixedLines(inp) : LineOf(inp, l)[2] # Zero

MonthOf(r, line) ==
    CASE line = "cogs" -> r.cogs_month
      [] line = "labor" -> r.labor_month
      [] line = "opex" -> r.opex_month
      [] line = "marketing" -> r.marketing_month
      [] line = "fee" -> r.fee_month

\* C7: a fixed-mode line resolves to its fixed amount at every revenue; a
\* percent-mode line resolves to revenue times percent, so k times the revenue
\* gives k times the amount.
C7_ResolverByMode ==
    Computed =>
        \A l \in Lines :
            LET ln == LineOf(inp, l)
                rv == results.revenue_month
            IN  /\ l \in FixedLines(inp) =>
                      /\ MonthOf(results, l) = ln[3]
                      /\ \A k \in 0..3 :
                            _cost_amount(RMul(FromInt(k), rv), ln[1], ln[2], ln[3]) = ln[3]
                /\ l \in PercentLines(inp) =>
                      /\ MonthOf(results, l) = RMul(rv, ln[2])
                      /\ \A k \in 0..3 :
                            _cost_amount(RMul(FromInt(k), rv), ln[1], ln[2], ln[3])
                                = RMul(FromInt(k), MonthOf(results, l))

C7_Witness ==
    /\ Computed
    /\ RGt(results.revenue_month, Zero)
    /\ \E l \in FixedLines(inp) : RGt(MonthOf(results, l), Zero) /\ LineOf(inp, l)[2] # Zero
    /\ \E l \in PercentLines(inp) : RGt(MonthOf(results, l), Zero) /\ LineOf(inp, l)[3] # Zero

Twelve(x) == RMul(FromInt(12), x)

\* the revenue of a day, segment by segment: orders times ticket, neither below 0
RECURSIVE SegmentsRevenue(_)
SegmentsRevenue(dps) ==
    IF dps = <<>> THEN Zero
    ELSE LET o == Head(dps).orders_per_day
             t == Head(dps).ticket_avg
         IN  RAdd(RMul(IF RLt(o, Zero) THEN Zero ELSE o, IF RLt(t, Zero) THEN Zero ELSE t),
                  SegmentsRevenue(Tail(dps)))

\* C8: the annual run-rate revenue is 12 times the revenue of the month, which is
\* the revenue of the day times the open days, the revenue of the day being the sum
\* of orders times ticket over the segments; every annual run-rate cost and the
\* annual EBITDA are 12 times their monthly figure.
C8_RunRateExact ==
    Computed =>
        /\ results.revenue_annual_runrate = Twelve(results.revenue_month)
        /\ results.revenue_month
               = RMul(results.revenue_day, FromInt(inp.open_days_per_month))
        /\ results.revenue_day = SegmentsRevenue(inp.dayparts)
        /\ results.cogs_annual_runrate = Twelve(results.cogs_month)
        /\ results.labor_annual_runrate = Twelve(results.labor_month)
        /\ results.opex_annual_runrate = Twelve(results.opex_month)
        /\ results.marketing_annual_runrate = Twelve(results.marketing_month)
        /\ results.fee_annual_runrate = Twelve(results.fee_month)
        /\ results.occupancy_annual_runrate = Twelve(results.occupancy_month)
        /\ results.ebitda_annual_runrate = Twelve(results.ebitda_month)

C8_Witness ==
    /\ Computed
    /\ Len(inp.dayparts) = 2
    /\ inp.open_days_per_month = 14
    /\ results.revenue_day = FromInt(2000)
    /\ results.revenue_annual_runrate = FromInt(336000)

\* C9: in both views ROI is defined exactly when the cash invested (capex +
\* deposits + immobilizations + guarantees) is positive, payback exactly when the
\* cash invested and the view's EBITDA are both positive, and a defined payback is
\* a positive number of months.
C9_RoiPaybackDefined ==
    Computed =>
        LET cash == results.cash_invested
        IN  /\ cash = RAdd(RAdd(RAdd(inp.capex, inp.deposits), inp.immobilizations),
                           inp.guarantees)
            /\ ~IsNone(results.roi_annual) <=> RGt(cash, Zero)
            /\ ~IsNone(results.roi_annual_y1) <=> RGt(cash, Zero)
            /\ ~IsNone(results.payback_months)
                   <=> (RGt(cash, Zero) /\ RGt(results.ebitda_annual_runrate, Zero))
            /\ ~IsNone(results.payback_months_y1)
                   <=> (RGt(cash, Zero) /\ RGt(results.ebitda_annual_y1, Zero))
            /\ ~IsNone(results.roi_annual)
                   => RMul(results.roi_annual, cash) = results.ebitda_annual_runrate
            /\ ~IsNone(results.roi_annual_y1)
                   => RMul(results.roi_annual_y1, cash) = results.ebitda_annual_y1
            /\ ~IsNone(results.payback_months)
                   => /\ RGt(results.payback_months, Zero)
                      /\ RMul(results.payback_months, results.ebitda_month) = cash
            /\ ~IsNone(results.payback_months_y1)
                   => /\ RGt(results.payback_months_y1, Zero)
                      /\ RMul(results.payback_months_y1, results.ebitda_annual_y1)
                             = Twelve(cash)

\* cash invested, a run-rate EBITDA above 0 and a first-year EBITDA below 0
C9_Witness ==
    /\ Computed
    /\ RGt(results.cash_invested, Zero)
    /\ RGt(results.ebitda_month, Zero)
    /\ RLt(results.ebitda_annual_y1, Zero)
    /\ ~IsNone(results.payback_months)
    /\ IsNone(results.payback_months_y1)
    /\ ~IsNone(results.roi_annual_y1)

\* C10: GO exactly when EBITDA% >= 15%, prime cost% <= 60% and occupancy% <= 12%;
\* otherwise REVIEW exactly when EBITDA% >= 10%; otherwise NO_GO.
C10_StatusRule ==
    Classified =>
        LET e == results.ebitda_pct_annual_runrate
            go == /\ RGe(e, Permille(150))
                  /\ RLe(results.prime_cost_pct, Permille(600))
                  /\ RLe(results.occupancy_pct, Permille(120))
        IN  /\ fe.status \in {"GO", "REVIEW", "NO_GO"}
            /\ fe.status = "GO" <=> go
            /\ fe.status = "REVIEW" <=> (~go /\ RGe(e, Permille(100)))
            /\ fe.status = "NO_GO" <=> (~go /\ RLt(e, Permille(100)))

\* all three ratios on their bounds: still GO
C10_Witness ==
    /\ Classified
    /\ results.ebitda_pct_annual_runrate = Permille(150)
    /\ results.prime_cost_pct = Permille(600)
    /\ results.occupancy_pct = Permille(120)
    /\ fe.status = "GO"

\* C11: whatever the status, the reasons are exactly three, in the order EBITDA,
\* prime cost, occupancy, each by its own tier: EBITDA% below 8% critical, from 8%
\* to below 12% borderline, from 12% to below 18% sustainable, 18% and more strong;
\* prime cost up to 55% efficient, above 55% up to 65% manageable, above 65% at
\* risk; occupancy up to 10% sustainable, above 10% up to 14% acceptable, above
\* 14% high pressure.
C11_ThreeReasons ==
    Classified =>
        LET e == results.ebitda_pct_annual_runrate
            p == results.prime_cost_pct
            o == results.occupancy_pct
        IN  /\ Len(fe.reasons) = 3
            /\ fe.reasons[1] = "EBITDA < 8%" <=> RLt(e, Permille(80))
            /\ fe.reasons[1] = "EBITDA 8%-12%" <=> (RGe(e, Permille(80)) /\ RLt(e, Permille(120)))
            /\ fe.reasons[1] = "EBITDA 12%-18%"
                   <=> (RGe(e, Permille(120)) /\ RLt(e, Permille(180)))
            /\ fe.reasons[1] = "EBITDA >= 18%" <=> RGe(e, Permille(180))
            /\ fe.reasons[2] = "Prime Cost <= 55%" <=> RLe(p, Permille(550))
            /\ fe.reasons[2] = "Prime Cost 55%-65%"
                   <=> (RGt(p, Permille(550)) /\ RLe(p, Permille(650)))
            /\ fe.reasons[2] = "Prime Cost > 65%" <=> RGt(p, Permille(650))
            /\ fe.reasons[3] = "Occupancy <= 10%" <=> RLe(o, Permille(100))
            /\ fe.reasons[3] = "Occupancy 10%-14%"
                   <=> (RGt(o, Permille(100)) /\ RLe(o, Permille(140)))
            /\ fe.reasons[3] = "Occupancy > 14%" <=> RGt(o, Permille(140))

\* a NO_GO with every ratio on a tier bound: borderline, efficient, acceptable
C11_Witness ==
    /\ Classified
    /\ fe.status = "NO_GO"
    /\ results.ebitda_pct_annual_runrate = Permille(80)
    /\ results.prime_cost_pct = Permille(550)
    /\ results.occupancy_pct = Permille(140)
    /\ fe.reasons = <<"EBITDA 8%-12%", "Prime Cost <= 55%", "Occupancy 10%-14%">>

EffectiveWeights(i) ==
    MwNoRenorm(MonthWeights(i.quarter_weights),
               Factors(ClampRampMonths(i.ramp_up_months), ClampRampFloor(i.ramp_up_floor)))

EqualQuarters(i) ==
    \/ i.quarter_weights = <<>>
    \/ /\ Len(i.quarter_weights) = 4
       /\ \A k \in 1..4 : i.quarter_weights[k] = i.quarter_weights[1]

\* C12: the effective month weights (month weight times ramp factor) are not
\* scaled back: their sum is at most 1 and at least the ramp floor, so the
\* first-year revenue is the run-rate revenue times that sum and never above the
\* run-rate revenue; with four equal quarters and a ramp of n >= 2 months from
\* floor f the sum is 1 - (1 - f) * n / 24, one half for a full-year ramp from 0.
C12_NotRenormalized ==
    Computed =>
        LET rr == results.revenue_annual_runrate
            y1 == results.revenue_annual_y1
            n  == results.ramp_up_months
            fl == results.ramp_up_floor
            sm == RSum(EffectiveWeights(inp))
        IN  /\ n \in 0..12
            /\ RLe(Zero, fl) /\ RLe(fl, One)
            /\ RLe(sm, One)
            /\ RGe(sm, fl)
            /\ y1 = RMul(rr, sm)
            /\ RLe(y1, rr)
            /\ EqualQuarters(inp) =>
                  y1 = IF n >= 2
                       THEN RMul(rr, RSub(One, RMul(RSub(One, fl), Rat(n, 24))))
                       ELSE rr

\* the whole year ramping from 0, on unequal quarters: less than the run-rate
C12_Witness ==
    /\ Computed
    /\ results.ramp_up_months = 12
    /\ results.ramp_up_floor = Zero
    /\ inp.quarter_weights = Qw(10, 20, 30, 40)
    /\ RGt(results.revenue_annual_y1, Zero)
    /\ RLt(results.revenue_annual_y1, results.revenue_annual_runrate)

\* factors[m] of the computation, m counted from 0
FactorOf(i, m) ==
    Factors(ClampRampMonths(i.ramp_up_months), ClampRampFloor(i.ramp_up_floor))[m + 1]

\* C13: the ramp factor is the floor at month 0 and 1 at month n - 1, in equal
\* steps between (n >= 2 ramp months); it is 1 for the single month when n = 1;
\* it never decreases over months 0..n-1, is 1 for every month from n on, and
\* every factor is between the floor and 1.
C13_RampFactor ==
    Computed =>
        LET n  == results.ramp_up_months
            fl == results.ramp_up_floor
            f(m) == FactorOf(inp, m)
        IN  /\ n >= 2 =>
                  /\ f(0) = fl
                  /\ f(n - 1) = One
                  /\ \A m \in 0..(n - 2) :
                        RMul(FromInt(n - 1), RSub(f(m + 1), f(m))) = RSub(One, fl)
            /\ n = 1 => f(0) = One
            /\ \A m \in 0..(n - 2) : RLe(f(m), f(m + 1))
            /\ \A m \in n..11 : f(m) = One
            /\ \A m \in 0..11 : RLe(fl, f(m)) /\ RLe(f(m), One)

\* three ramp months from 65%: 0.65, 0.825, 1, then 1
C13_Witness ==
    /\ Computed
    /\ results.ramp_up_months = 3
    /\ results.ramp_up_floor = Rat(65, 100)
    /\ FactorOf(inp, 0) = Rat(65, 100)
    /\ FactorOf(inp, 1) = Rat(825, 1000)
    /\ FactorOf(inp, 2) = One
    /\ FactorOf(inp, 3) = One

\* four weights, none negative, not all zero
UsableQuarterWeights(qw) ==
    /\ Len(qw) = 4
    /\ \A k \in 1..4 : RGe(qw[k], Zero)
    /\ \E k \in 1..4 : RGt(qw[k], Zero)

\* C14: four non-negative quarter weights, not all zero, are normalized to a sum
\* of 1 and each spread evenly over its three months: month m of quarter k weighs
\* weight k / (3 * total), and the twelve month weights sum to 1; missing
\* weights, a list that is not four values, or weights that sum to zero give four
\* equal quarters, every month 1/12.
C14_QuarterWeights ==
    Computed =>
        LET qw == inp.quarter_weights
            mw == MonthWeights(qw)
        IN  /\ Len(mw) = 12
            /\ RSum(mw) = One
            /\ UsableQuarterWeights(qw) =>
                  /\ \A k \in 1..4 : \A j \in 1..3 :
                        RMul(mw[3 * (k - 1) + j], RMul(FromInt(3), RSum(qw))) = qw[k]
                  /\ RSum([k \in 1..4 |-> RMul(FromInt(3), mw[3 * k])]) = One
            /\ ~UsableQuarterWeights(qw) => \A m \in 1..12 : mw[m] = Rat(1, 12)
            /\ results.ramp_up_months = 0
                   => results.revenue_annual_y1 = results.revenue_annual_runrate

\* weights 30, 30, 30, 60: a total of 150, months of 1/15 and 2/15
C14_Witness ==
    /\ Computed
    /\ inp.quarter_weights = Qw(30, 30, 30, 60)
    /\ MonthWeights(inp.quarter_weights)[1] = Rat(1, 15)
    /\ MonthWeights(inp.quarter_weights)[12] = Rat(2, 15)
    /\ results.ramp_up_months = 0

Y1Of(r, line) ==
    CASE line = "cogs" -> r.cogs_annual_y1
      [] line = "labor" -> r.labor_annual_y1
      [] line = "opex" -> r.opex_annual_y1
      [] line = "marketing" -> r.marketing_annual_y1
      [] line = "fee" -> r.fee_annual_y1

CostsY1(r) ==
    RAdd(RAdd(RAdd(RAdd(r.cogs_annual_y1, r.labor_annual_y1), r.opex_annual_y1),
              r.marketing_annual_y1), r.fee_annual_y1)

\* C15: in the first-year view a percent-mode line is its percent of the
\* first-year revenue, a fixed-mode line is 12 times its monthly amount whatever
\* the seasonality and the ramp, occupancy is 12 times the monthly occupancy, the
\* first-year EBITDA is the first-year revenue minus the five lines minus
\* occupancy, and its ratio to the first-year revenue is 0 when that revenue is 0.
C15_FirstYearCosts ==
    Computed =>
        LET y1 == results.revenue_annual_y1
        IN  /\ \A l \in PercentLines(inp) : Y1Of(results, l) = RMul(LineOf(inp, l)[2], y1)
            /\ \A l \in FixedLines(inp) : Y1Of(results, l) = Twelve(LineOf(inp, l)[3])
            /\ results.occupancy_annual_y1
                   = Twelve(RAdd(inp.rent_fixed_month, inp.service_charges_month))
            /\ results.ebitda_annual_y1
                   = RSub(RSub(y1, CostsY1(results)), results.occupancy_annual_y1)
            /\ IF RGt(y1, Zero)
               THEN RMul(results.ebitda_pct_annual_y1, y1) = results.ebitda_annual_y1
               ELSE results.ebitda_pct_annual_y1 = Zero

\* a fixed line and a percent line in a first year below the run-rate
C15_Witness ==
    /\ Computed
    /\ RGt(results.revenue_annual_y1, Zero)
    /\ RLt(results.revenue_annual_y1, results.revenue_annual_runrate)
    /\ \E l \in FixedLines(inp) :
          /\ RGt(Y1Of(results, l), Zero)
          /\ LineOf(inp, l)[2] # Zero
    /\ \E l \in PercentLines(inp) :
          /\ RGt(Y1Of(results, l), Zero)
          /\ RLt(Y1Of(results, l), Twelve(MonthOf(results, l)))

\* C16: without annual run-rate revenue the EBITDA, prime cost, occupancy and
\* controllable cost ratios are all the number 0, not None, whatever the fixed
\* costs; with revenue each is its numerator divided by the annual revenue.
C16_ZeroRevenueRatios ==
    Computed =>
        LET rv == results.revenue_annual_runrate
        IN  IF rv = Zero
            THEN /\ results.ebitda_pct_annual_runrate = Zero
                 /\ results.prime_cost_pct = Zero
                 /\ results.occupancy_pct = Zero
                 /\ results.controllable_costs_pct = Zero
            ELSE /\ RGt(rv, Zero)
                 /\ RMul(results.ebitda_pct_annual_runrate, rv) = results.ebitda_annual_runrate
                 /\ RMul(results.prime_cost_pct, rv)
                        = RAdd(results.cogs_annual_runrate, results.labor_annual_runrate)
                 /\ RMul(results.occupancy_pct, rv) = results.occupancy_annual_runrate
                 /\ RMul(results.controllable_costs_pct, rv)
                        = Twelve(CostsMonth(results))

\* no segments, fixed cost lines and occupancy: a loss, and every ratio 0
C16_Witness ==
    /\ Computed
    /\ inp.dayparts = <<>>
    /\ results.revenue_annual_runrate = Zero
    /\ RGt(results.labor_annual_runrate, Zero)
    /\ RGt(results.occupancy_annual_runrate, Zero)
    /\ RLt(results.ebitda_annual_runrate, Zero)
    /\ results.ebitda_pct_annual_runrate = Zero
    /\ results.occupancy_pct = Zero

\* other segment lists and open days to run the same cost configuration on
OtherVolumes ==
    {<<<<>>, 30>>, <<<<Dp(100, 10)>>, 1>>, <<<<Dp(100, 10), Dp(-5, 10)>>, 14>>}

AtVolume(i, v) == [i EXCEPT !.dayparts = v[1], !.open_days_per_month = v[2]]

BreakEvenUnmoved(i, r) ==
    \A v \in OtherVolumes :
        LET o == Financials(AtVolume(i, v))
        IN  /\ o.break_even_revenue_month = r.break_even_revenue_month
            /\ o.break_even_revenue_annual = r.break_even_revenue_annual

\* C17 as stated: with no segments break-even is undefined only when the fixed
\* costs of the month are 0 and computed whenever they are not 0; and the
\* break-even revenue is the same for every segment list and number of open days.
C17_Original ==
    JustComputed =>
        /\ inp.dayparts = <<>> =>
              (IsNone(results.break_even_revenue_month)
                   <=> results.fixed_costs_month = Zero)
        /\ BreakEvenUnmoved(inp, results)

\* C17: with no segments break-even is undefined only when the fixed costs of the
\* month are 0 or the contribution margin is not positive; with fixed costs and a
\* positive margin it is still computed, as fixed costs over margin; and the
\* break-even revenue, monthly and annual, is the same for every segment list and
\* number of open days under the same cost configuration.
C17_BreakEvenWithoutRevenue ==
    JustComputed =>
        /\ inp.dayparts = <<>> =>
              /\ results.revenue_month = Zero
              /\ IsNone(results.break_even_revenue_month)
                     <=> (\/ results.fixed_costs_month = Zero
                          \/ RLe(results.contribution_margin, Zero))
              /\ ~IsNone(results.break_even_revenue_month) =>
                     RMul(results.break_even_revenue_month, results.contribution_margin)
                         = results.fixed_costs_month
        /\ BreakEvenUnmoved(inp, results)

\* no segments, fixed costs and a positive margin: break-even is there
C17_Witness ==
    /\ JustComputed
    /\ inp.dayparts = <<>>
    /\ results.revenue_month = Zero
    /\ RGt(results.fixed_costs_month, FromInt(3500))
    /\ RGt(results.variable_rate, Zero)
    /\ ~IsNone(results.break_even_revenue_month)
    /\ RGt(results.break_even_revenue_month, results.fixed_costs_month)

\* C18: one segment of 100 orders a day at a ticket of 10, 30 open days, COGS 30%,
\* labor 30%, OPEX 12%, marketing 3%, fee 0% (all percent mode), rent 3000 and
\* service charges 500 give revenue 1000 a day, 30000 a month, 360000 a year,
\* occupancy 3500, variable rate 0.75, fixed costs 3500, margin 0.25, break-even
\* revenue 14000 a month and 168000 a year, EBITDA 4000 a month and 48000 a year,
\* which is 48000/360000 of the annual revenue.
C18_EndToEnd ==
    (Computed /\ inp = ScenarioInput) =>
        /\ results.revenue_day = FromInt(1000)
        /\ results.revenue_month = FromInt(30000)
        /\ results.revenue_annual_runrate = FromInt(360000)
        /\ results.occupancy_month = FromInt(3500)
        /\ results.variable_rate = Rat(75, 100)
        /\ results.fixed_costs_month = FromInt(3500)
        /\ results.contribution_margin = Rat(25, 100)
        /\ results.break_even_revenue_month = FromInt(14000)
        /\ results.break_even_revenue_annual = FromInt(168000)
        /\ results.ebitda_month = FromInt(4000)
        /\ results.ebitda_annual_runrate = FromInt(48000)
        /\ results.ebitda_pct_annual_runrate = Rat(48000, 360000)

C18_Witness ==
    /\ Computed
    /\ inp = ScenarioInput
    /\ Len(inp.dayparts) = 1
    /\ inp.cogs_pct = Rat(3, 10)
    /\ inp.marketing_pct = Rat(3, 100)
    /\ results.orders_day = FromInt(100)
    /\ ~IsNone(results.break_even_revenue_month)

Allocated == pc = "allocated"

\* the revenue of the month of a segment with orders and ticket not below 0
SegmentRevenueMonth(dp, open_days) ==
    RMul(RMul(dp.orders_per_day, dp.ticket_avg), FromInt(open_days))

SegmentsRevenueMonth(dps, open_days) ==
    RSum([k \in 1..Len(dps) |-> SegmentRevenueMonth(dps[k], open_days)])

\* C19: for every non-empty segment list the shares of the segments sum to 1:
\* each is the revenue of the month of its segment over the total of the segments
\* when that total is above 0, and 1/n for each of the n segments when it is 0.
C19_SharesSumToOne ==
    (Allocated /\ inp.dayparts # <<>>) =>
        LET dps  == inp.dayparts
            rows == staffing.fte_daypart_rows
            n    == Len(dps)
            tot  == SegmentsRevenueMonth(dps, session.open_days)
        IN  /\ Len(rows) = n
            /\ RSum([k \in 1..n |-> rows[k].share]) = One
            /\ \A k \in 1..n :
                  IF RGt(tot, Zero)
                  THEN RMul(rows[k].share, tot) = SegmentRevenueMonth(dps[k], session.open_days)
                  ELSE rows[k].share = Rat(1, n)

\* two segments of 30000 and 3000 a month: shares 10/11 and 1/11
C19_Witness ==
    /\ Allocated
    /\ Len(staffing.fte_daypart_rows) = 2
    /\ staffing.fte_daypart_rows[1].share = Rat(10, 11)
    /\ staffing.fte_daypart_rows[2].share = Rat(1, 11)

\* C20: the labor hours of the year are the labor cost base over the hourly cost
\* when the hourly cost is above 0 and undefined (None, not the number 0) when it
\* is not; the FTE total is those hours over the hours per FTE (the value the
\* block works with); each segment's hours and FTE come the same way from the
\* cost allocated to it.
C20_HoursUndefinedWithoutCost ==
    Allocated =>
        LET hc   == session.fte_hourly_cost
            hpf  == staffing.fte_hours_per_fte
            rows == staffing.fte_daypart_rows
        IN  /\ IF RGt(hc, Zero)
               THEN /\ ~IsNone(staffing.fte_labor_hours_annual)
                    /\ RMul(staffing.fte_labor_hours_annual, hc)
                           = staffing.fte_labor_base_annual
                    /\ RMul(staffing.fte_total, hpf) = staffing.fte_labor_hours_annual
               ELSE IsNone(staffing.fte_labor_hours_annual)
            /\ \A k \in 1..Len(rows) :
                  IF RGt(hc, Zero)
                  THEN /\ RMul(rows[k].hours_annual, hc) = rows[k].cost_annual
                       /\ RMul(rows[k].fte, hpf) = rows[k].hours_annual
                  ELSE IsNone(rows[k].hours_annual)

\* other settings of the labor cost line
OtherLaborLines ==
    {<<"pct", Pct(50), Zero>>, <<"eur", Pct(25), FromInt(500)>>, <<"eur", Zero, Zero>>}

\* C21: the FTE block works on the first-year revenue and labor cost exactly when
\* the first-year view is asked for and seasonality is on, on the run-rate ones
\* otherwise; by method m1 the labor cost base is the labor cost of that view; by
\* method m2 it is the revenue of that view times the target percent, whatever
\* the mode, percent or fixed amount of the labor cost line.
C21_LaborCostBase ==
    Allocated =>
        LET y1   == session.fte_use_y1 /\ session.ramp_enable
            rev  == IF y1 THEN results.revenue_annual_y1 ELSE results.revenue_annual_runrate
            lab  == IF y1 THEN results.labor_annual_y1 ELSE results.labor_annual_runrate
            base == staffing.fte_labor_base_annual
        IN  /\ staffing.fte_revenue_base = rev
            /\ session.fte_method = "m1" => base = lab
            /\ session.fte_method = "m2" =>
                  /\ base = RMul(rev, Rat(session.fte_target_inc.n,
                                          100 * session.fte_target_inc.d))
                  /\ \A l \in OtherLaborLines :
                        FteOutput(Financials(WithLine(inp, "labor", l[1], l[2], l[3])),
                                  session, inp.dayparts).fte_labor_base_annual = base

\* seasonality on, the first-year view not asked for: the run-rate labor cost,
\* which is not the first-year one
C21_Witness ==
    /\ Allocated
    /\ session.ramp_enable
    /\ ~session.fte_use_y1
    /\ session.fte_method = "m1"
    /\ RGt(results.labor_annual_y1, Zero)
    /\ RLt(results.labor_annual_y1, results.labor_annual_runrate)
    /\ staffing.fte_labor_base_annual = results.labor_annual_runrate

NotBelowZero(x) == IF RLt(x, Zero) THEN Zero ELSE x

\* the segments with every negative orders or ticket replaced by 0
WithoutNegatives(dps) ==
    [k \in 1..Len(dps) |->
        [dps[k] EXCEPT !.orders_per_day = NotBelowZero(@), !.ticket_avg = NotBelowZero(@)]]

\* C22: negative orders and tickets count as 0, segment by segment, before the
\* sums: replacing every negative orders or ticket by 0 changes no figure of the
\* result, and the orders of the day and the revenue of the day, month and year
\* are never negative.
C22_NegativesClamped ==
    JustComputed =>
        /\ Financials([inp EXCEPT !.dayparts = WithoutNegatives(inp.dayparts)])
               = WithoutCurve(results)
        /\ RGe(results.orders_day, Zero)
        /\ RGe(results.revenue_day, Zero)
        /\ RGe(results.revenue_month, Zero)
        /\ RGe(results.revenue_annual_runrate, Zero)

\* a segment with negative orders and a negative ticket beside a selling one
C22_Witness ==
    /\ JustComputed
    /\ Len(inp.dayparts) = 2
    /\ \E k \in 1..2 : /\ RLt(inp.dayparts[k].orders_per_day, Zero)
                        /\ RLt(inp.dayparts[k].ticket_avg, Zero)
    /\ results.revenue_day = FromInt(1000)
    /\ results.orders_day = FromInt(100)

RECURSIVE MinutesOpenAll(_)

\* the minutes a segment of HourSegments is open, read off its times by hand
MinutesOpen(key) ==
    CASE key = "lunch" -> 180
      [] key = "night" -> 240
      [] key = "long" -> 1439
      [] key = "blank" -> 90
      [] OTHER -> 0

MinutesOpenAll(dps) ==
    IF dps = <<>> THEN 0 ELSE MinutesOpen(Head(dps).key) + MinutesOpenAll(Tail(dps))

HasTimes(i) == \E k \in 1..Len(i.dayparts) : i.dayparts[k].key # "dp"

\* C23: a segment with well-formed times counts end - start hours, 24 more when
\* the end is before the start, always more than 0 and less than 24; a segment
\* with equal, missing or malformed times counts no hours and keeps its orders
\* and revenue; orders and revenue per hour are those of the day over the total
\* hours when that total is above 0 and undefined otherwise.
C23_HourlyAnalytics ==
    (JustComputed /\ HasTimes(inp)) =>
        LET dps == inp.dayparts
            total == MinutesOpenAll(dps)
        IN  /\ \A k \in 1..Len(dps) :
                  /\ MinutesOpen(dps[k].key) > 0 =>
                        /\ dps[k].key \in DOMAIN results.hours_by_daypart
                        /\ results.hours_by_daypart[dps[k].key]
                               = Rat(MinutesOpen(dps[k].key), 60)
                        /\ RGt(results.hours_by_daypart[dps[k].key], Zero)
                        /\ RLt(results.hours_by_daypart[dps[k].key], FromInt(24))
                  /\ MinutesOpen(dps[k].key) = 0 =>
                        dps[k].key \notin DOMAIN results.hours_by_daypart
            /\ results.orders_day = RSum([k \in 1..Len(dps) |-> dps[k].orders_per_day])
            /\ results.revenue_day = SegmentsRevenue(dps)
            /\ total > 0 =>
                  /\ results.hours_day_total = Rat(total, 60)
                  /\ results.orders_per_hour = Rat(results.orders_day.n * 60, results.orders_day.d * total)
                  /\ results.revenue_per_hour = Rat(results.revenue_day.n * 60, results.revenue_day.d * total)
            /\ total = 0 =>
                  /\ IsNone(results.hours_day_total)
                  /\ IsNone(results.orders_per_hour)
                  /\ IsNone(results.revenue_per_hour)

\* hours across midnight beside a start of four characters: 4 hours, 70 orders
C23_Witness ==
    /\ JustComputed
    /\ Len(inp.dayparts) = 2
    /\ inp.dayparts[1].key = "night"
    /\ inp.dayparts[2].key = "odd"
    /\ results.hours_day_total = FromInt(4)
    /\ results.orders_day = FromInt(70)
    /\ results.orders_per_hour = Rat(35, 2)
    /\ results.revenue_per_hour = FromInt(275)

\* the greatest of three numbers
GreatestOf(a, b, c) == CHOOSE x \in {a, b, c} : \A y \in {a, b, c} : RLe(y, x)

\* C24: the curve is there iff the break-even revenue is defined; it then has 61
\* equally spaced revenues from 0 to the greatest of 1.4 times the run-rate
\* revenue of the year, 1.6 times the break-even revenue of the year and 150000;
\* at each one the total cost is the fixed costs of the year plus the variable
\* rate times the revenue, and the EBITDA the revenue minus the total cost: minus
\* the fixed costs of the year at the first, above 0 at the last.
C24_BreakEvenCurve ==
    JustComputed =>
        LET c == results.break_even_curve
            xs == c.revenue_annual
            fixed_annual == RMul(results.fixed_costs_month, FromInt(12))
        IN  /\ (c # NoCurve) <=> ~IsNone(results.break_even_revenue_month)
            /\ c # NoCurve =>
                  /\ Len(xs) = 61
                  /\ Len(c.total_costs_annual) = 61
                  /\ Len(c.ebitda_annual) = 61
                  /\ xs[1] = Zero
                  /\ xs[61] = GreatestOf(RMul(Rat(7, 5), results.revenue_annual_runrate),
                                         RMul(Rat(8, 5), results.break_even_revenue_annual),
                                         FromInt(150000))
                  /\ \A k \in 1..60 : RSub(xs[k + 1], xs[k]) = RDiv(xs[61], FromInt(60))
                  /\ \A k \in 1..61 :
                        /\ c.total_costs_annual[k]
                               = RAdd(fixed_annual, RMul(results.variable_rate, xs[k]))
                        /\ c.ebitda_annual[k] = RSub(xs[k], c.total_costs_annual[k])
                  /\ c.ebitda_annual[1] = RNeg(fixed_annual)
                  /\ RGt(c.ebitda_annual[61], Zero)

\* no revenue, a margin of 25% and 3500 of fixed costs a month: the axis ends at
\* 1.6 times the break-even revenue of 168000, where the EBITDA is 25200
C24_Witness ==
    /\ JustComputed
    /\ results.revenue_annual_runrate = Zero
    /\ results.break_even_revenue_annual = FromInt(168000)
    /\ results.break_even_curve.revenue_annual[61] = FromInt(268800)
    /\ results.break_even_curve.ebitda_annual[1] = FromInt(0 - 42000)
    /\ results.break_even_curve.ebitda_annual[61] = FromInt(25200)

\* the break-even loop counts the line's percent: a higher percent moves the rate
SolverTakesPercent(line) ==
    LET l == LineOf(inp, line)
    IN  Financials(WithLine(inp, line, l[1], RAdd(l[2], Pct(10)), l[3])).variable_rate
            # results.variable_rate

ResolverTakesPercent(line) ==
    MonthOf(results, line) = RMul(results.revenue_month, LineOf(inp, line)[2])

Y1TakesPercent(line) ==
    Y1Of(results, line) = RMul(LineOf(inp, line)[2], results.revenue_annual_y1)

\* C25: whatever the mode text of a line, the break-even loop counts it in the
\* variable rate iff the monthly amount is revenue times percent iff the
\* first-year amount is percent times the first-year revenue.
C25_ModesAgree ==
    JustComputed =>
        \A line \in Lines :
            /\ SolverTakesPercent(line) <=> ResolverTakesPercent(line)
            /\ ResolverTakesPercent(line) <=> Y1TakesPercent(line)

\* the three places agree on the modes pct and eur in any letter case and on no mode
C25_KnownModesAgree ==
    (JustComputed /\ \A line \in Lines : LineOf(inp, line)[1] \in PercentModes \cup FixedModes)
        => C25_ModesAgree

RunRateOf(r, line) ==
    CASE line = "cogs" -> r.cogs_annual_runrate
      [] line = "labor" -> r.labor_annual_runrate
      [] line = "opex" -> r.opex_annual_runrate
      [] line = "marketing" -> r.marketing_annual_runrate
      [] line = "fee" -> r.fee_annual_runrate

\* no percent, fixed amount, occupancy or investment below 0
NonNegativeInput(i) ==
    /\ \A line \in Lines : RGe(LineOf(i, line)[2], Zero) /\ RGe(LineOf(i, line)[3], Zero)
    /\ RGe(i.rent_fixed_month, Zero) /\ RGe(i.service_charges_month, Zero)
    /\ RGe(i.capex, Zero) /\ RGe(i.deposits, Zero)
    /\ RGe(i.immobilizations, Zero) /\ RGe(i.guarantees, Zero)

SeasonalityInactive(i) == i.quarter_weights = <<>> /\ i.ramp_up_months = 0

\* C26: without quarter weights and with 0 ramp months the first-year view is the
\* run-rate view for every non-negative input: the same revenue, the same five
\* cost lines and occupancy, the same EBITDA and EBITDA ratio, the same ROI and
\* the same payback, undefined together.
C26_Y1IsRunRate ==
    (JustComputed /\ SeasonalityInactive(inp) /\ NonNegativeInput(inp)) =>
        /\ results.revenue_annual_y1 = results.revenue_annual_runrate
        /\ \A line \in Lines : Y1Of(results, line) = RunRateOf(results, line)
        /\ results.occupancy_annual_y1 = results.occupancy_annual_runrate
        /\ results.ebitda_annual_y1 = results.ebitda_annual_runrate
        /\ results.ebitda_pct_annual_y1 = results.ebitda_pct_annual_runrate
        /\ results.roi_annual_y1 = results.roi_annual
        /\ results.payback_months_y1 = results.payback_months
        /\ IsNone(results.roi_annual_y1) <=> IsNone(results.roi_annual)
        /\ IsNone(results.payback_months_y1) <=> IsNone(results.payback_months)

\* 27000 invested, an EBITDA of 4000 a month: 6.75 months in both views
C26_Witness ==
    /\ JustComputed
    /\ SeasonalityInactive(inp)
    /\ results.cash_invested = FromInt(27000)
    /\ results.ebitda_month = FromInt(4000)
    /\ results.payback_months = Rat(27, 4)
    /\ results.payback_months_y1 = Rat(27, 4)
    /\ results.roi_annual_y1 = Rat(16, 9)

\* the first-year figures of a result
Y1Figures(r) ==
    <<r.revenue_annual_y1, r.cogs_annual_y1, r.labor_annual_y1, r.opex_annual_y1,
      r.marketing_annual_y1, r.fee_annual_y1, r.occupancy_annual_y1, r.ebitda_annual_y1,
      r.ebitda_pct_annual_y1, r.roi_annual_y1, r.payback_months_y1>>

\* other quarter weights to run the same input with
QuarterWeightVariants ==
    {Qw(10, 40, 30, 20), Qw(10, 20, 40, 30), Qw(5, 15, 15, 15), Qw(25, 50, 25, 0),
     Qw(25, 25, 0, 50), Qw(40, 30, 20, 10), Qw(1, 1, 1, 1), Qw(0, 0, 100, 0)}

WithQuarterWeights(i, qw) == [i EXCEPT !.quarter_weights = qw]

\* the two weightings give the same weight to every month whose ramp factor is below 1
SameWeightsUnderRamp(i, qw) ==
    \A m \in 0..11 :
        RLt(FactorOf(i, m), One) => MonthWeights(qw)[m + 1] = MonthWeights(i.quarter_weights)[m + 1]

\* C27: with at most 1 ramp month or a ramp floor of 1, every four non-negative
\* quarter weights that are not all 0 give the run-rate revenue as first-year
\* revenue and the same first-year costs, EBITDA, ROI and payback as no weights;
\* under a ramp, two weightings that agree on the months whose ramp factor is
\* below 1 give the same first-year figures.
C27_QuarterWeightsAlone ==
    (JustComputed /\ UsableQuarterWeights(inp.quarter_weights)) =>
        /\ (results.ramp_up_months <= 1 \/ results.ramp_up_floor = One) =>
              /\ results.revenue_annual_y1 = results.revenue_annual_runrate
              /\ Y1Figures(results) = Y1Figures(Financials(WithQuarterWeights(inp, <<>>)))
              /\ \A qw \in QuarterWeightVariants :
                    Y1Figures(Financials(WithQuarterWeights(inp, qw))) = Y1Figures(results)
        /\ \A qw \in QuarterWeightVariants :
              SameWeightsUnderRamp(inp, qw)
                  => Y1Figures(Financials(WithQuarterWeights(inp, qw))) = Y1Figures(results)

\* a ramp of 12 months from a floor of 1, the whole year in the first quarter
C27_Witness ==
    /\ JustComputed
    /\ inp.quarter_weights = Qw(100, 0, 0, 0)
    /\ results.ramp_up_months = 12
    /\ results.ramp_up_floor = One
    /\ results.revenue_annual_y1 = FromInt(360000)
    /\ Y1Figures(Financials(WithQuarterWeights(inp, Qw(0, 0, 100, 0)))) = Y1Figures(results)

\* a ramp over the first quarter: the other three quarters can trade weight
C27_UnderRamp ==
    /\ JustComputed
    /\ inp.quarter_weights = Qw(10, 20, 30, 40)
    /\ results.ramp_up_months = 3
    /\ results.ramp_up_floor = Rat(65, 100)
    /\ SameWeightsUnderRamp(inp, Qw(10, 40, 30, 20))
    /\ ~SameWeightsUnderRamp(inp, Qw(40, 30, 20, 10))
    /\ Y1Figures(Financials(WithQuarterWeights(inp, Qw(40, 30, 20, 10)))) # Y1Figures(results)

\* the status of the same result at a prime cost of p and an occupancy of o
StatusAt(p, o) ==
    evaluate_feasibility([results EXCEPT !.prime_cost_pct = p, !.occupancy_pct = o]).status

\* prime costs and occupancies on both sides of the bounds of GO and of the reasons
OtherPrimeCosts == {Zero, Permille(600), Permille(601), Permille(651), FromInt(2)}

OtherOccupancies == {Zero, Permille(120), Permille(121), Permille(141), FromInt(2)}

\* C28: the status is NO_GO iff the EBITDA ratio is below 10%: at the same EBITDA
\* ratio no prime cost and no occupancy makes or unmakes a NO_GO, and they can
\* only turn a GO into a REVIEW; a result without revenue, its three ratios 0, is
\* NO_GO.
C28_NoGoByEbitdaOnly ==
    Classified =>
        /\ fe.status = "NO_GO" <=> RLt(results.ebitda_pct_annual_runrate, Permille(100))
        /\ \A p \in OtherPrimeCosts : \A o \in OtherOccupancies :
              LET other == StatusAt(p, o)
              IN  /\ other = "NO_GO" <=> fe.status = "NO_GO"
                  /\ other # fe.status => {other, fe.status} = {"GO", "REVIEW"}
                  /\ (fe.status = "GO" /\ other = "REVIEW")
                        => \/ RGt(p, results.prime_cost_pct)
                           \/ RGt(o, results.occupancy_pct)
        /\ (/\ results.ebitda_pct_annual_runrate = Zero
            /\ results.prime_cost_pct = Zero
            /\ results.occupancy_pct = Zero) => fe.status = "NO_GO"
        /\ (inp # NoInput /\ results.revenue_annual_runrate = Zero) => fe.status = "NO_GO"

\* an EBITDA ratio of 15% with a prime cost just above 60%: REVIEW, and GO at a
\* prime cost of 60%
C28_Witness ==
    /\ Classified
    /\ results.ebitda_pct_annual_runrate = Permille(150)
    /\ results.prime_cost_pct = Permille(601)
    /\ results.occupancy_pct = Permille(120)
    /\ fe.status = "REVIEW"
    /\ StatusAt(Permille(600), Permille(120)) = "GO"
    /\ StatusAt(Permille(651), Permille(141)) = "REVIEW"

\* no segments, costs and occupancy configured: classified NO_GO
C28_NoRevenue ==
    /\ Classified
    /\ inp # NoInput
    /\ inp.dayparts = <<>>
    /\ results.revenue_annual_runrate = Zero
    /\ RLt(results.ebitda_annual_runrate, Zero)
    /\ fe.status = "NO_GO"

\* C29: status and reasons do not contradict each other: under GO the EBITDA
\* reason is sustainable or strong, the prime-cost reason efficient or manageable
\* and the occupancy reason sustainable or acceptable; under NO_GO the EBITDA
\* reason is critical or borderline.
C29_StatusAndReasons ==
    Classified =>
        /\ fe.status = "GO" =>
              /\ fe.reasons[1] \in {"EBITDA 12%-18%", "EBITDA >= 18%"}
              /\ fe.reasons[2] \in {"Prime Cost <= 55%", "Prime Cost 55%-65%"}
              /\ fe.reasons[3] \in {"Occupancy <= 10%", "Occupancy 10%-14%"}
        /\ fe.status = "NO_GO" => fe.reasons[1] \in {"EBITDA < 8%", "EBITDA 8%-12%"}

\* GO with each reason in its middle tier
C29_Witness ==
    /\ Classified
    /\ fe.status = "GO"
    /\ results.ebitda_pct_annual_runrate = Permille(151)
    /\ results.prime_cost_pct = Permille(551)
    /\ results.occupancy_pct = Permille(101)
    /\ fe.reasons = <<"EBITDA 12%-18%", "Prime Cost 55%-65%", "Occupancy 10%-14%">>

\* the revenue of the month of a segment as calculate_financials counts it
AggregatorRevenueMonth(dp, open_days) ==
    RMul(RMul(NotBelowZero(dp.orders_per_day), NotBelowZero(dp.ticket_avg)), FromInt(open_days))

\* C30: the allocator and calculate_financials agree on the revenue of each
\* segment, whatever the signs of orders and ticket and whatever the open days:
\* the allocator's revenue of the month of a segment is max(0, orders) times
\* max(0, ticket) times the open days, the sum over the segments is the revenue
\* of the month, and a segment's share is its share of the revenue of the month.
C30_AllocatorAgrees ==
    Allocated =>
        LET dps == inp.dayparts
            od  == inp.open_days_per_month
        IN  /\ Len(staffing.tmp_rows) = Len(dps)
            /\ \A k \in 1..Len(dps) :
                  /\ staffing.tmp_rows[k].rev_month = AggregatorRevenueMonth(dps[k], od)
                  /\ RGt(results.revenue_month, Zero) =>
                        RMul(staffing.fte_daypart_rows[k].share, results.revenue_month)
                            = AggregatorRevenueMonth(dps[k], od)
            /\ staffing.tot_month_rev = results.revenue_month

\* no orders or ticket below 0 and at least one open day
OrdinarySegments ==
    /\ inp.open_days_per_month >= 1
    /\ \A k \in 1..Len(inp.dayparts) :
          RGe(inp.dayparts[k].orders_per_day, Zero) /\ RGe(inp.dayparts[k].ticket_avg, Zero)

\* the two agree on what the inputs of the script can hold
C30_OrdinaryAgree == OrdinarySegments => C30_AllocatorAgrees

\* orders and ticket both below 0 beside a segment of 30000 a month
C30_BothNegative ==
    /\ Allocated
    /\ Len(inp.dayparts) = 2
    /\ inp.dayparts[1].key = "lunch"
    /\ inp.dayparts[2].key = "void"
    /\ inp.open_days_per_month = 30
    /\ results.revenue_month = FromInt(30000)
    /\ staffing.tot_month_rev = FromInt(30300)
    /\ staffing.fte_daypart_rows[2].share = Rat(1, 101)

====
